---- MODULE Spec2Model ----
(***************************************************************************)
(* Model of abergmeier/golang-protobuf:                                    *)
(*   - splitio.NewReadersSequential (lhsReader / rhsReader over one shared *)
(*     bufio.Reader and one sync.WaitGroup),                               *)
(*   - csvpb.Decoder (NewDecoder / prefetch / More / Decode),              *)
(*   - csvpb.Unmarshaler (UnmarshalNext / unmarshalRecord / csvUnmarshal). *)
(* Each component has its own specification; the variables of the other    *)
(* components stay at their initial values.                                *)
(***************************************************************************)
EXTENDS Integers, Sequences, FiniteSets, TLC

(***************************************************************************)
(* Bounds of the model.                                                    *)
(***************************************************************************)
\* longest source handed to NewReadersSequential
MaxLen == 3
\* largest len(p) a caller passes to Read
MaxP == 4
\* most lines the upstream of a Decoder holds
MaxLines == 3
\* most Decode() calls one behaviour makes
MaxDecodes == 5
\* longest Header / record of the assembler
MaxCols == 2
\* longest text of a cell, apart from the texts of NamedTexts
MaxRaw == 3
\* most messages a map or repeated field of the message under check holds
MaxRep == 1

(***************************************************************************)
(* Program constants, scaled down so that the cases "len(p) larger than    *)
(* the peek window" and "more buffered than peeked" are reachable:         *)
(* PeekWindow stands for the literal 1024 of lhsReader.Read, BufSize for   *)
(* the default size (4096) of the bufio.Reader made by bufio.NewReader.    *)
(* Only PeekWindow < BufSize matters to the code.                          *)
(***************************************************************************)
PeekWindow == 2
BufSize == 4

\* the separator byte (sep) and the byte alphabet
SepByte == 0
Bytes == {0, 1, 2}

VARIABLES
    \* ---- splitio ----
    input,      \* the bytes of the source r, as given to NewReadersSequential
    srcEnd,     \* what r.Read returns once its bytes are used up: "EOF" or "ERR"
    src,        \* bytes of r not yet read by the bufio.Reader
    buf,        \* bytes buffered in br and not yet consumed
    done,       \* lhsReader.done
    wg,         \* counter of the sync.WaitGroup
    lpc,        \* position of the goroutine inside lhsReader.Read
    lp,         \* len(p) of the running lhsReader.Read
    li,         \* i, the index findByte returned
    ln,         \* n of the running lhsReader.Read
    lout,       \* all bytes lhsReader.Read has stored into its callers' p
    lret,       \* (n, err) of the last lhsReader.Read that returned
    leof,       \* lhsReader.Read has returned io.EOF
    rpc,        \* position of the goroutine inside rhsReader.Read
    rp,         \* len(p) of the running rhsReader.Read
    rout,       \* all bytes rhsReader.Read has stored into its callers' p
    rret,       \* (n, err) of the last rhsReader.Read that returned
    reof,       \* rhsReader.Read has returned io.EOF
    rtouched,   \* rhsReader.Read has called br.Read
    rreturned,  \* some rhsReader.Read has returned
    \* ---- csvpb.Decoder ----
    inLines,    \* the lines of the upstream reader handed to NewDecoder
    lines,      \* the lines the upstream reader still holds
    v,          \* Decoder.v
    err,        \* Decoder.err
    reportedError, \* Decoder.reportedError
    tokErr,     \* the last d.reader.Read() of prefetch returned a genuine error
    moreRes,    \* result of the last More() since the last Decode()
    decRet,     \* (record, error) of the last Decode()
    decoded,    \* the records Decode() has returned, in order
    ndec,       \* number of Decode() calls
    nerr,       \* number of Decode() calls that returned a non-nil error
    nerrAfterMore, \* ... of those, the calls made after More() returned true
    \* ---- csvpb.Unmarshaler ----
    Header,     \* Unmarshaler.Header
    AllowUnknownFields, \* Unmarshaler.AllowUnknownFields
    inputValue, \* the record dec.Decode() hands to UnmarshalNext
    decodeErr,  \* the error dec.Decode() hands to UnmarshalNext
    target,     \* the message pb that UnmarshalNext fills
    oneofOrder, \* the order in which range visited sprops.OneofTypes
    recErr,     \* what unmarshalRecord returned: "none" when it did not run
    result,     \* outcome of UnmarshalNext: "none" before the call
    \* ---- unmarshalValue on one cell ----
    vType,      \* the Go type of the field the cell is decoded into
    vEnum,      \* prop.Enum of the field
    vText,      \* the text of the cell
    vOut,       \* the field and the error afterwards; err "none" before the call
    \* ---- checkRequiredFields on one message ----
    pbMsg,      \* the message pb
    pbErr,      \* the error checkRequiredFields returned; err "none" before the call
    \* ---- (*Unmarshaler).Unmarshal on successive streams ----
    uStreams,   \* the input streams r of the successive Unmarshal calls
    uCalls,     \* number of Unmarshal calls that have returned
    uPreset     \* the caller has set Unmarshaler.Header before the first call

splitVars == <<input, srcEnd, src, buf, done, wg, lpc, lp, li, ln, lout, lret,
               leof, rpc, rp, rout, rret, reof, rtouched, rreturned>>

decVars == <<inLines, lines, v, err, reportedError, tokErr, moreRes, decRet,
             decoded, ndec, nerr, nerrAfterMore>>

asmVars == <<Header, AllowUnknownFields, inputValue, decodeErr, target,
             oneofOrder, recErr, result>>

valVars == <<vType, vEnum, vText, vOut>>

reqVars == <<pbMsg, pbErr>>

unmVars == <<uStreams, uCalls, uPreset>>

vars == <<splitVars, decVars, asmVars, valVars, reqVars, unmVars>>

(***************************************************************************)
(* Helpers                                                                 *)
(***************************************************************************)
min(lhs, rhs) == IF lhs < rhs THEN lhs ELSE rhs

SeqsUpTo(S, n) == UNION {[1..k -> S] : k \in 0..n}

Take(s, k) == SubSeq(s, 1, k)
Drop(s, k) == SubSeq(s, k + 1, Len(s))

\* findByte: index (0-based) of the first sep in s, -1 when there is none
findByte(s, sep) ==
    IF \E k \in 1..Len(s) : s[k] = sep
    THEN (CHOOSE k \in 1..Len(s) : s[k] = sep /\ \A j \in 1..(k-1) : s[j] # sep) - 1
    ELSE -1

(***************************************************************************)
(* bufio.Reader over the source.  The source hands out its bytes in chunks *)
(* of any positive size and then returns srcEnd; the error of the reader   *)
(* is always cleared by readErr() before a call returns, so it is no state.*)
(* Each operator gives the set of outcomes of one call.                    *)
(***************************************************************************)
\* (*bufio.Reader).Peek(n), n <= BufSize
brPeek(b, s, e, n) ==
    IF Len(b) >= n
    THEN {[buf |-> b, src |-> s, arr |-> Take(b, n), err |-> "nil"]}
    ELSE IF Len(b) + Len(s) < n
         THEN {[buf |-> b \o s, src |-> <<>>, arr |-> b \o s, err |-> e]}
         ELSE {[buf |-> b \o Take(s, m - Len(b)), src |-> Drop(s, m - Len(b)),
                arr |-> Take(b \o s, n), err |-> "nil"] :
                 m \in n..min(BufSize, Len(b) + Len(s))}

\* (*bufio.Reader).Read(p) with len(p) = k
brRead(b, s, e, k) ==
    IF k = 0 THEN {[buf |-> b, src |-> s, data |-> <<>>, err |-> "nil"]}
    ELSE IF Len(b) > 0
    THEN {[buf |-> Drop(b, min(k, Len(b))), src |-> s,
           data |-> Take(b, min(k, Len(b))), err |-> "nil"]}
    ELSE IF Len(s) = 0
    THEN {[buf |-> b, src |-> s, data |-> <<>>, err |-> e]}
    ELSE IF k >= BufSize
    THEN \* large read, empty buffer: read directly into p
         {[buf |-> b, src |-> Drop(s, j), data |-> Take(s, j), err |-> "nil"] :
            j \in 1..min(k, Len(s))}
    ELSE \* one read into the buffer, then copy
         {[buf |-> SubSeq(s, min(k, j) + 1, j), src |-> Drop(s, j),
           data |-> Take(s, min(k, j)), err |-> "nil"] :
            j \in 1..min(BufSize, Len(s))}

\* (*bufio.Reader).ReadByte()
brReadByte(b, s, e) ==
    IF Len(b) > 0
    THEN {[buf |-> Tail(b), src |-> s, err |-> "nil"]}
    ELSE IF Len(s) = 0
    THEN {[buf |-> b, src |-> s, err |-> e]}
    ELSE {[buf |-> SubSeq(s, 2, j), src |-> Drop(s, j), err |-> "nil"] :
            j \in 1..min(BufSize, Len(s))}

(***************************************************************************)
(* splitio: NewReadersSequential, lhsReader.Read, rhsReader.Read           *)
(***************************************************************************)
NoRet == [n |-> 0, err |-> "none"]

\* NewReadersSequential(r, sep): br := bufio.NewReader(r); wg.Add(1)
InitSplit ==
    /\ input \in SeqsUpTo(Bytes, MaxLen)
    /\ srcEnd \in {"EOF", "ERR"}
    /\ src = input
    /\ buf = <<>>
    /\ done = FALSE
    /\ wg = 1
    /\ lpc = "idle" /\ lp = 0 /\ li = 0 /\ ln = 0
    /\ lout = <<>> /\ lret = NoRet /\ leof = FALSE
    /\ rpc = "idle" /\ rp = 0
    /\ rout = <<>> /\ rret = NoRet /\ reof = FALSE
    /\ rtouched = FALSE /\ rreturned = FALSE

rhsUnchanged == UNCHANGED <<rpc, rp, rout, rret, reof, rtouched, rreturned, decVars, asmVars, valVars, reqVars, unmVars>>
lhsUnchanged == UNCHANGED <<lpc, lp, li, ln, lout, lret, leof, done, decVars, asmVars, valVars,
                          reqVars, unmVars>>

\* lhsReader.Read entry without the r.done early return
lhsReadCall_IgnoreDone ==
    /\ lpc = "idle"
    /\ \E k \in 0..MaxP :
         IF k = 0
         THEN /\ lret' = [n |-> 0, err |-> "nil"]
              /\ UNCHANGED <<lpc, lp, leof>>
         ELSE /\ lpc' = "peek"
              /\ lp' = k
              /\ UNCHANGED <<lret, leof>>
    /\ UNCHANGED <<input, srcEnd, src, buf, done, wg, li, ln, lout>>
    /\ rhsUnchanged

\* lhsReader.Read entry: the r.done and len(p) == 0 early returns
lhsReadCall ==
    /\ lpc = "idle"
    /\ \E k \in 0..MaxP :
         IF done
         THEN /\ lret' = [n |-> 0, err |-> "EOF"]
              /\ leof' = TRUE
              /\ UNCHANGED <<lpc, lp>>
         ELSE IF k = 0
         THEN /\ lret' = [n |-> 0, err |-> "nil"]
              /\ UNCHANGED <<lpc, lp, leof>>
         ELSE /\ lpc' = "peek"
              /\ lp' = k
              /\ UNCHANGED <<lret, leof>>
    /\ UNCHANGED <<input, srcEnd, src, buf, done, wg, li, ln, lout>>
    /\ rhsUnchanged

\* bufLen := min(len(p), 1024); array, peekErr := r.br.Peek(bufLen);
\* i := findByte(array, r.sep)
lhsReadPeek ==
    /\ lpc = "peek"
    /\ \E o \in brPeek(buf, src, srcEnd, min(lp, PeekWindow)) :
         /\ buf' = o.buf
         /\ src' = o.src
         /\ IF o.err # "nil" /\ o.err # "EOF"
            THEN /\ lret' = [n |-> 0, err |-> o.err]
                 /\ lpc' = "idle"
                 /\ UNCHANGED li
            ELSE /\ li' = findByte(o.arr, SepByte)
                 /\ lpc' = IF findByte(o.arr, SepByte) = -1 THEN "readall" ELSE "readsep"
                 /\ UNCHANGED lret
    /\ UNCHANGED <<input, srcEnd, done, wg, lp, ln, lout, leof>>
    /\ rhsUnchanged

\* if i == -1 { return r.br.Read(p) }
lhsReadAll ==
    /\ lpc = "readall"
    /\ \E o \in brRead(buf, src, srcEnd, lp) :
         /\ buf' = o.buf
         /\ src' = o.src
         /\ lout' = lout \o o.data
         /\ lret' = [n |-> Len(o.data), err |-> o.err]
         /\ leof' = (leof \/ o.err = "EOF")
    /\ lpc' = "idle"
    /\ UNCHANGED <<input, srcEnd, done, wg, lp, li, ln>>
    /\ rhsUnchanged

\* p = p[:i]; n, err = r.br.Read(p)
lhsReadSep ==
    /\ lpc = "readsep"
    /\ \E o \in brRead(buf, src, srcEnd, li) :
         /\ buf' = o.buf
         /\ src' = o.src
         /\ lout' = lout \o o.data
         /\ ln' = Len(o.data)
         /\ IF o.err # "nil" /\ o.err # "EOF"
            THEN /\ lret' = [n |-> Len(o.data), err |-> o.err]
                 /\ lpc' = "idle"
            ELSE /\ lpc' = IF o.err # "EOF" THEN "readbyte" ELSE "signal"
                 /\ UNCHANGED lret
    /\ UNCHANGED <<input, srcEnd, done, wg, lp, li, leof>>
    /\ rhsUnchanged

\* _, err := r.br.ReadByte()
lhsReadByte ==
    /\ lpc = "readbyte"
    /\ \E o \in brReadByte(buf, src, srcEnd) :
         /\ buf' = o.buf
         /\ src' = o.src
         /\ IF o.err # "nil" /\ o.err # "EOF"
            THEN /\ lret' = [n |-> ln, err |-> o.err]
                 /\ lpc' = "idle"
            ELSE /\ lpc' = "signal"
                 /\ UNCHANGED lret
    /\ UNCHANGED <<input, srcEnd, done, wg, lp, li, ln, lout, leof>>
    /\ rhsUnchanged

\* a signal that leaves r.done as it is
lhsSignal_NotDone ==
    /\ lpc = "signal"
    /\ wg' = wg - 1
    /\ lpc' = "ret"
    /\ UNCHANGED <<input, srcEnd, src, buf, done, lp, li, ln, lout, lret, leof>>
    /\ rhsUnchanged

\* r.done = true; r.wg.Done()
lhsSignal ==
    /\ lpc = "signal"
    /\ done' = TRUE
    /\ wg' = wg - 1
    /\ lpc' = "ret"
    /\ UNCHANGED <<input, srcEnd, src, buf, lp, li, ln, lout, lret, leof>>
    /\ rhsUnchanged

\* return n, io.EOF
lhsReturn ==
    /\ lpc = "ret"
    /\ lret' = [n |-> ln, err |-> "EOF"]
    /\ leof' = TRUE
    /\ lpc' = "idle"
    /\ UNCHANGED <<input, srcEnd, src, buf, done, wg, lp, li, ln, lout>>
    /\ rhsUnchanged

\* rhsReader.Read entry
rhsReadCall ==
    /\ rpc = "idle"
    /\ \E k \in 0..MaxP : rp' = k
    /\ rpc' = "wait"
    /\ UNCHANGED <<input, srcEnd, src, buf, wg, rout, rret, reof, rtouched, rreturned>>
    /\ lhsUnchanged

\* rhsReader.Read without r.wg.Wait()
rhsWait_NoWait ==
    /\ rpc = "wait"
    /\ rpc' = "read"
    /\ UNCHANGED <<input, srcEnd, src, buf, wg, rp, rout, rret, reof, rtouched, rreturned>>
    /\ lhsUnchanged

\* r.wg.Wait(): returns once the counter is zero
rhsWait ==
    /\ rpc = "wait"
    /\ wg = 0
    /\ rpc' = "read"
    /\ UNCHANGED <<input, srcEnd, src, buf, wg, rp, rout, rret, reof, rtouched, rreturned>>
    /\ lhsUnchanged

\* return r.br.Read(p)
rhsRead ==
    /\ rpc = "read"
    /\ \E o \in brRead(buf, src, srcEnd, rp) :
         /\ buf' = o.buf
         /\ src' = o.src
         /\ rout' = rout \o o.data
         /\ rret' = [n |-> Len(o.data), err |-> o.err]
         /\ reof' = (reof \/ o.err = "EOF")
    /\ rtouched' = TRUE
    /\ rreturned' = TRUE
    /\ rpc' = "idle"
    /\ UNCHANGED <<input, srcEnd, wg, rp>>
    /\ lhsUnchanged

NextSplit ==
    \/ lhsReadCall
    \/ lhsReadPeek
    \/ lhsReadAll
    \/ lhsReadSep
    \/ lhsReadByte
    \/ lhsSignal
    \/ lhsReturn
    \/ rhsReadCall
    \/ rhsWait
    \/ rhsRead

(***************************************************************************)
(* csvpb.Decoder: NewDecoder, prefetch, More, Decode                       *)
(* The upstream is a sequence of lines behind one bufio.Reader shared by   *)
(* the Decoder (Peek) and its csv.Reader:                                  *)
(*   "r1", "r2"  a well-formed record line                                 *)
(*   "blank"     an empty line, which csv.Reader skips                     *)
(*   "bad"       a line csv.Reader rejects with a ParseError               *)
(*   "ioOnce"    the source fails one Read with an error, buffer empty     *)
(*   "ioSticky"  the source fails every further Read with an error         *)
(* and the end of the sequence is the end of the input (io.EOF).           *)
(***************************************************************************)
Recs == {"r1", "r2"}
Items == Recs \cup {"blank", "bad", "ioOnce", "ioSticky"}

\* d.buffer.Peek(1): is a byte available, and what is left upstream
Peek1(ls) ==
    IF ls = <<>> THEN [empty |-> TRUE, lines |-> ls]
    ELSE IF Head(ls) = "ioOnce" THEN [empty |-> TRUE, lines |-> Tail(ls)]
    ELSE IF Head(ls) = "ioSticky" THEN [empty |-> TRUE, lines |-> ls]
    ELSE [empty |-> FALSE, lines |-> ls]

\* (*csv.Reader).Read(): skips empty lines, returns (record, err)
RECURSIVE csvRead(_)
csvRead(ls) ==
    IF ls = <<>> THEN [v |-> "nil", err |-> "EOF", lines |-> ls]
    ELSE IF Head(ls) = "blank" THEN csvRead(Tail(ls))
    ELSE IF Head(ls) \in Recs THEN [v |-> Head(ls), err |-> "nil", lines |-> Tail(ls)]
    ELSE IF Head(ls) = "bad" THEN [v |-> "partial", err |-> "ParseError", lines |-> Tail(ls)]
    ELSE IF Head(ls) = "ioOnce" THEN [v |-> "partial", err |-> "IOError", lines |-> Tail(ls)]
    ELSE [v |-> "partial", err |-> "IOError", lines |-> ls]

\* prefetch that peeks after d.reader.Read() instead of before it
prefetch_PeekAfterRead(ls) ==
    LET rd == csvRead(ls)
        pk == Peek1(rd.lines)
    IN  IF pk.empty
        THEN [v |-> "nil", err |-> "EOF", lines |-> pk.lines,
              tok |-> rd.err \notin {"nil", "EOF"}]
        ELSE [v |-> rd.v, err |-> rd.err, lines |-> pk.lines,
              tok |-> rd.err \notin {"nil", "EOF"}]

\* (*Decoder).prefetch
prefetch(ls) ==
    LET pk == Peek1(ls)
        rd == csvRead(pk.lines)
    IN  IF pk.empty
        THEN [v |-> "nil", err |-> "EOF", lines |-> rd.lines,
              tok |-> rd.err \notin {"nil", "EOF"}]
        ELSE [v |-> rd.v, err |-> rd.err, lines |-> rd.lines,
              tok |-> rd.err \notin {"nil", "EOF"}]

NoDec == [v |-> "none", err |-> "none"]

\* the Decoder before NewDecoder has run
DecIdle ==
    /\ inLines = <<>> /\ lines = <<>>
    /\ v = "nil" /\ err = "nil" /\ reportedError = FALSE /\ tokErr = FALSE
    /\ moreRes = "none" /\ decRet = NoDec /\ decoded = <<>>
    /\ ndec = 0 /\ nerr = 0 /\ nerrAfterMore = 0

\* NewDecoder(r): d.prefetch()
NewDecoder ==
    /\ inLines \in SeqsUpTo(Items, MaxLines)
    /\ lines = prefetch(inLines).lines
    /\ v = prefetch(inLines).v
    /\ err = prefetch(inLines).err
    /\ tokErr = prefetch(inLines).tok
    /\ reportedError = FALSE
    /\ moreRes = "none" /\ decRet = NoDec /\ decoded = <<>>
    /\ ndec = 0 /\ nerr = 0 /\ nerrAfterMore = 0

\* the splitter before NewReadersSequential has run
SplitIdle ==
    /\ input = <<>> /\ srcEnd = "EOF" /\ src = <<>> /\ buf = <<>>
    /\ done = FALSE /\ wg = 0
    /\ lpc = "idle" /\ lp = 0 /\ li = 0 /\ ln = 0
    /\ lout = <<>> /\ lret = NoRet /\ leof = FALSE
    /\ rpc = "idle" /\ rp = 0
    /\ rout = <<>> /\ rret = NoRet /\ reof = FALSE
    /\ rtouched = FALSE /\ rreturned = FALSE

\* (*Decoder).More
More(e, reported) ==
    IF e = "nil" THEN TRUE
    ELSE IF e = "EOF" THEN FALSE
    ELSE ~reported

\* a More() that counts the error it sees as reported
MoreCall_MarksReported ==
    /\ moreRes' = (IF More(err, reportedError) THEN "true" ELSE "false")
    /\ reportedError' = (reportedError \/ err \notin {"nil", "EOF"})
    /\ UNCHANGED <<inLines, lines, v, err, tokErr, decRet,
                   decoded, ndec, nerr, nerrAfterMore>>
    /\ UNCHANGED <<splitVars, asmVars, valVars, reqVars, unmVars>>

\* a call of (*Decoder).More
MoreCall ==
    /\ moreRes' = (IF More(err, reportedError) THEN "true" ELSE "false")
    /\ UNCHANGED <<inLines, lines, v, err, reportedError, tokErr, decRet,
                   decoded, ndec, nerr, nerrAfterMore>>
    /\ UNCHANGED <<splitVars, asmVars, valVars, reqVars, unmVars>>

\* Decode that forgets d.reportedError = true
Decode_NotReported ==
    /\ ndec < MaxDecodes
    /\ ndec' = ndec + 1
    /\ moreRes' = "none"
    /\ IF err # "nil"
       THEN /\ UNCHANGED reportedError
            /\ decRet' = IF err = "EOF" THEN [v |-> v, err |-> "nil"]
                                       ELSE [v |-> "nil", err |-> err]
            /\ nerr' = IF err = "EOF" THEN nerr ELSE nerr + 1
            /\ nerrAfterMore' = IF err # "EOF" /\ moreRes = "true"
                                THEN nerrAfterMore + 1 ELSE nerrAfterMore
            /\ decoded' = IF err = "EOF" /\ v # "nil" THEN Append(decoded, v) ELSE decoded
            /\ UNCHANGED <<lines, v, err, tokErr>>
       ELSE /\ decRet' = [v |-> v, err |-> err]
            /\ decoded' = Append(decoded, v)
            /\ lines' = prefetch(lines).lines
            /\ v' = prefetch(lines).v
            /\ err' = prefetch(lines).err
            /\ tokErr' = prefetch(lines).tok
            /\ UNCHANGED <<reportedError, nerr, nerrAfterMore>>
    /\ UNCHANGED inLines
    /\ UNCHANGED <<splitVars, asmVars, valVars, reqVars, unmVars>>

\* Decode that tries the upstream again when the prefetched outcome is io.EOF
Decode_RetryOnEOF ==
    /\ ndec < MaxDecodes
    /\ ndec' = ndec + 1
    /\ moreRes' = "none"
    /\ IF err # "nil" /\ err # "EOF"
       THEN /\ reportedError' = TRUE
            /\ decRet' = [v |-> "nil", err |-> err]
            /\ nerr' = nerr + 1
            /\ nerrAfterMore' = IF moreRes = "true" THEN nerrAfterMore + 1 ELSE nerrAfterMore
            /\ UNCHANGED <<lines, v, err, tokErr, decoded>>
       ELSE /\ decRet' = [v |-> v, err |-> "nil"]
            /\ decoded' = IF v # "nil" THEN Append(decoded, v) ELSE decoded
            /\ lines' = prefetch(lines).lines
            /\ v' = prefetch(lines).v
            /\ err' = prefetch(lines).err
            /\ tokErr' = prefetch(lines).tok
            /\ UNCHANGED <<reportedError, nerr, nerrAfterMore>>
    /\ UNCHANGED inLines
    /\ UNCHANGED <<splitVars, asmVars, valVars, reqVars, unmVars>>

\* (*Decoder).Decode
Decode ==
    /\ ndec < MaxDecodes
    /\ ndec' = ndec + 1
    /\ moreRes' = "none"
    /\ IF err # "nil"
       THEN /\ reportedError' = TRUE
            /\ decRet' = IF err = "EOF" THEN [v |-> v, err |-> "nil"]
                                       ELSE [v |-> "nil", err |-> err]
            /\ nerr' = IF err = "EOF" THEN nerr ELSE nerr + 1
            /\ nerrAfterMore' = IF err # "EOF" /\ moreRes = "true"
                                THEN nerrAfterMore + 1 ELSE nerrAfterMore
            /\ decoded' = IF err = "EOF" /\ v # "nil" THEN Append(decoded, v) ELSE decoded
            /\ UNCHANGED <<lines, v, err, tokErr>>
       ELSE \* currentV, currentErr := d.v, d.err; d.prefetch()
            /\ decRet' = [v |-> v, err |-> err]
            /\ decoded' = Append(decoded, v)
            /\ lines' = prefetch(lines).lines
            /\ v' = prefetch(lines).v
            /\ err' = prefetch(lines).err
            /\ tokErr' = prefetch(lines).tok
            /\ UNCHANGED <<reportedError, nerr, nerrAfterMore>>
    /\ UNCHANGED inLines
    /\ UNCHANGED <<splitVars, asmVars, valVars, reqVars, unmVars>>

NextDec ==
    \/ MoreCall
    \/ Decode

(***************************************************************************)
(* Text.  A cell is a Go string, modelled as the sequence of its           *)
(* characters (one-character strings), so that the conversions of strings, *)
(* strconv, time, encoding/base64 and encoding/csv work on the characters  *)
(* as the library code does.                                               *)
(***************************************************************************)
Quote == "\""
Digit == {"0", "1", "2", "3", "4", "5", "6", "7", "8", "9"}
DigitVal == ("0" :> 0 @@ "1" :> 1 @@ "2" :> 2 @@ "3" :> 3 @@ "4" :> 4 @@ "5"
            :> 5 @@ "6" :> 6 @@ "7" :> 7 @@ "8" :> 8 @@ "9" :> 9)
\* unicode.ToLower on the ASCII upper-case letters
LowerOf == ("A" :> "a" @@ "B" :> "b" @@ "C" :> "c" @@ "D" :> "d" @@ "E" :>
           "e" @@ "F" :> "f" @@ "G" :> "g" @@ "H" :> "h" @@ "I" :> "i" @@
           "J" :> "j" @@ "K" :> "k" @@ "L" :> "l" @@ "M" :> "m" @@ "N" :>
           "n" @@ "O" :> "o" @@ "P" :> "p" @@ "Q" :> "q" @@ "R" :> "r" @@
           "S" :> "s" @@ "T" :> "t" @@ "U" :> "u" @@ "V" :> "v" @@ "W" :>
           "w" @@ "X" :> "x" @@ "Y" :> "y" @@ "Z" :> "z")

IsDigits(s) == Len(s) > 0 /\ \A k \in 1..Len(s) : s[k] \in Digit
\* strings.HasPrefix, strings.Contains (of one character), strings.ToLower
HasPrefix(s, prefix) == Len(s) >= Len(prefix) /\ SubSeq(s, 1, Len(prefix)) = prefix
Contains(s, c) == \E k \in 1..Len(s) : s[k] = c
ToLower(s) == [k \in 1..Len(s) |-> IF s[k] \in DOMAIN LowerOf THEN LowerOf[s[k]] ELSE s[k]]
\* position of the first c in s, 0 when there is none
IndexOf(s, c) ==
    IF Contains(s, c)
    THEN CHOOSE k \in 1..Len(s) : s[k] = c /\ \A j \in 1..(k-1) : s[j] # c
    ELSE 0
\* strings.TrimSpace (the blank is the only white space of the model texts)
TrimSpace(s) ==
    IF \A k \in 1..Len(s) : s[k] = " " THEN <<>>
    ELSE LET a == CHOOSE k \in 1..Len(s) : s[k] # " " /\ \A j \in 1..(k-1) : s[j] = " "
             b == CHOOSE k \in 1..Len(s) : s[k] # " " /\ \A j \in (k+1)..Len(s) : s[j] = " "
         IN  SubSeq(s, a, b)
\* inputValue[1 : len(inputValue)-1]: panics when the bounds cross
StripEnds(s) ==
    IF Len(s) < 2 THEN [panic |-> TRUE, s |-> <<>>]
    ELSE [panic |-> FALSE, s |-> SubSeq(s, 2, Len(s) - 1)]

(***************************************************************************)
(* strconv.  An integer is kept as its decimal text without leading zeros  *)
(* (with a leading "-" when negative), so that the limits of the 32 and 64 *)
(* bit types are the real ones.                                            *)
(***************************************************************************)
RECURSIVE StripZeros(_)
StripZeros(s) == IF Len(s) > 1 /\ s[1] = "0" THEN StripZeros(Tail(s)) ELSE s
\* a <= b for two decimal texts without leading zeros
DecLeq(a, b) ==
    \/ Len(a) < Len(b)
    \/ /\ Len(a) = Len(b)
       /\ \/ a = b
          \/ \E k \in 1..Len(a) : /\ DigitVal[a[k]] < DigitVal[b[k]]
                                  /\ \A j \in 1..(k-1) : a[j] = b[j]
\* 1<<bitSize - 1 and 1<<(bitSize-1)
MaxUint(bitSize) == IF bitSize = 32 THEN <<"4", "2", "9", "4", "9", "6", "7", "2", "9", "5">>
                    ELSE <<"1", "8", "4", "4", "6", "7", "4", "4", "0", "7", "3", "7", "0", "9", "5", "5", "1", "6", "1", "5">>
HalfUint(bitSize) == IF bitSize = 32 THEN <<"2", "1", "4", "7", "4", "8", "3", "6", "4", "8">>
                     ELSE <<"9", "2", "2", "3", "3", "7", "2", "0", "3", "6", "8", "5", "4", "7", "7", "5", "8", "0", "8">>

\* strconv.ParseUint(s, 10, bitSize)
ParseUint(s, bitSize) ==
    IF ~IsDigits(s) THEN [err |-> "FormatError", v |-> <<>>]
    ELSE IF ~DecLeq(StripZeros(s), MaxUint(bitSize)) THEN [err |-> "RangeError", v |-> <<>>]
    ELSE [err |-> "nil", v |-> StripZeros(s)]

\* strconv.ParseInt(s, 10, bitSize)
ParseInt(s, bitSize) ==
    LET signed == Len(s) > 0 /\ s[1] \in {"+", "-"}
        neg == Len(s) > 0 /\ s[1] = "-"
        un == IF signed THEN Tail(s) ELSE s
        abs == StripZeros(un)
    IN  IF ~IsDigits(un) THEN [err |-> "FormatError", v |-> <<>>]
        ELSE IF ~neg /\ abs # HalfUint(bitSize) /\ DecLeq(abs, HalfUint(bitSize))
        THEN [err |-> "nil", v |-> abs]
        ELSE IF neg /\ DecLeq(abs, HalfUint(bitSize))
        THEN [err |-> "nil", v |-> IF abs = <<"0">> THEN abs ELSE <<"-">> \o abs]
        ELSE [err |-> "RangeError", v |-> <<>>]

\* strconv.ParseBool
ParseBool(s) ==
    IF s \in {<<"1">>,
              <<"t">>,
              <<"T">>,
              <<"T", "R", "U", "E">>,
              <<"t", "r", "u", "e">>,
              <<"T", "r", "u", "e">>}
    THEN [err |-> "nil", v |-> TRUE]
    ELSE IF s \in {<<"0">>,
              <<"f">>,
              <<"F">>,
              <<"F", "A", "L", "S", "E">>,
              <<"f", "a", "l", "s", "e">>,
              <<"F", "a", "l", "s", "e">>}
    THEN [err |-> "nil", v |-> FALSE]
    ELSE [err |-> "FormatError", v |-> FALSE]

\* strconv.ParseFloat for decimal texts and the names of the non-finite
\* values (hexadecimal mantissas and underscores need characters the model
\* texts do not have; no model text is out of the range of float32).  The
\* value is kept as the text it was parsed from.
ParseFloat(s, bitSize) ==
    LET signed == Len(s) > 0 /\ s[1] \in {"+", "-"}
        body == IF signed THEN Tail(s) ELSE s
        special == \/ ToLower(body) \in {<<"i", "n", "f">>, <<"i", "n", "f", "i", "n", "i", "t", "y">>}
                   \/ ToLower(s) = <<"n", "a", "n">>
        e == IF Contains(body, "e") /\ (~Contains(body, "E") \/ IndexOf(body, "e") < IndexOf(body, "E"))
             THEN IndexOf(body, "e") ELSE IndexOf(body, "E")
        mant == IF e = 0 THEN body ELSE SubSeq(body, 1, e - 1)
        exp == IF e = 0 THEN <<>> ELSE SubSeq(body, e + 1, Len(body))
        expDigits == IF Len(exp) > 0 /\ exp[1] \in {"+", "-"} THEN Tail(exp) ELSE exp
        mantOK == /\ \A k \in 1..Len(mant) : mant[k] \in Digit \cup {"."}
                  /\ \E k \in 1..Len(mant) : mant[k] \in Digit
                  /\ Cardinality({k \in 1..Len(mant) : mant[k] = "."}) <= 1
    IN  IF special \/ (mantOK /\ (e = 0 \/ IsDigits(expDigits)))
        THEN [err |-> "nil", v |-> s]
        ELSE [err |-> "FormatError", v |-> <<>>]

(***************************************************************************)
(* time.  A time.Duration is counted in milliseconds instead of            *)
(* nanoseconds (SecondInNanos stands for the 1e9 of the Duration case), so *)
(* that hours fit the integers of the checker; the units below the         *)
(* millisecond are accepted and count as zero.                             *)
(***************************************************************************)
SecondInNanos == 1000
unitMap == (<<"n", "s">> :> 0 @@ <<"u", "s">> :> 0 @@ <<"m", "s">> :> 1 @@ <<"s">> :> SecondInNanos
            @@ <<"m">> :> 60 * SecondInNanos @@ <<"h">> :> 3600 * SecondInNanos)

RECURSIVE LeadingDigits(_)
\* the number of digits s starts with
LeadingDigits(s) == IF Len(s) > 0 /\ s[1] \in Digit THEN 1 + LeadingDigits(Tail(s)) ELSE 0
RECURSIVE UnitLen(_)
\* the number of characters of s before its first digit or "."
UnitLen(s) == IF Len(s) > 0 /\ s[1] \notin Digit \cup {"."} THEN 1 + UnitLen(Tail(s)) ELSE 0
RECURSIVE DecVal(_)
\* the number a decimal text denotes
DecVal(s) == IF s = <<>> THEN 0 ELSE 10 * DecVal(SubSeq(s, 1, Len(s) - 1)) + DigitVal[s[Len(s)]]
RECURSIVE Pow10(_)
Pow10(n) == IF n = 0 THEN 1 ELSE 10 * Pow10(n - 1)

RECURSIVE durationTerms(_)
\* the end of one term: v and f are the digits before and after the ".",
\* s the text from the unit on
durationUnit(int, frac, s) ==
    IF (int = <<>> /\ frac = <<>>) \/ UnitLen(s) = 0 \/ Take(s, UnitLen(s)) \notin DOMAIN unitMap
    THEN [ok |-> FALSE, d |-> 0]
    ELSE [ok |-> durationTerms(Drop(s, UnitLen(s))).ok,
          d |-> DecVal(int) * unitMap[Take(s, UnitLen(s))]
                + (DecVal(frac) * unitMap[Take(s, UnitLen(s))]) \div Pow10(Len(frac))
                + durationTerms(Drop(s, UnitLen(s))).d]
\* the fraction of one term: s is the text after the leading digits int
durationFraction(int, s) ==
    IF Len(s) > 0 /\ s[1] = "."
    THEN durationUnit(int, Take(Tail(s), LeadingDigits(Tail(s))),
                      Drop(Tail(s), LeadingDigits(Tail(s))))
    ELSE durationUnit(int, <<>>, s)
\* the loop of time.ParseDuration over the terms  [0-9]*(\.[0-9]*)?[a-z]+
durationTerms(s) ==
    IF s = <<>> THEN [ok |-> TRUE, d |-> 0]
    ELSE durationFraction(Take(s, LeadingDigits(s)), Drop(s, LeadingDigits(s)))

\* time.ParseDuration
ParseDuration(s) ==
    LET signed == Len(s) > 0 /\ s[1] \in {"+", "-"}
        body == IF signed THEN Tail(s) ELSE s
        t == durationTerms(body)
    IN  IF body = <<"0">> THEN [err |-> "nil", d |-> 0]
        ELSE IF body = <<>> \/ ~t.ok THEN [err |-> "FormatError", d |-> 0]
        ELSE [err |-> "nil", d |-> IF s[1] = "-" THEN 0 - t.d ELSE t.d]

\* a quotient rounded toward minus infinity
Quo_Floor(a, b) == a \div b

\* the / and % of Go: the quotient is truncated toward zero
Quo(a, b) == IF a >= 0 THEN a \div b ELSE 0 - ((0 - a) \div b)
Rem(a, b) == a - b * Quo(a, b)

\* time.Parse(time.RFC3339Nano, s): the texts of the tests that it accepts,
\* with t.Unix() and t.Nanosecond(); it rejects every text shorter than
\* "2006-01-02T15:04:05Z"
RFC3339Nano ==
    (<<"2", "0", "1", "4", "-", "0", "5", "-", "1", "3", "T", "1", "6", ":", "5", "3", ":", "2", "0", "Z">>
        :> [sec |-> 1400000000, nsec |-> 0]
     @@ <<"2", "0", "1", "4", "-", "0", "5", "-", "1", "3", "T", "1", "6", ":", "5", "3", ":", "2", "0", ".", "0", "2", "1", "Z">>
        :> [sec |-> 1400000000, nsec |-> 21000000])
ParseTime(s) ==
    IF s \in DOMAIN RFC3339Nano THEN [err |-> "nil", t |-> RFC3339Nano[s]]
    ELSE [err |-> "FormatError", t |-> [sec |-> 0, nsec |-> 0]]

(***************************************************************************)
(* encoding/base64 and encoding/csv                                        *)
(***************************************************************************)
encodeStd == {"A", "B", "C", "D", "E", "F", "G", "H", "I", "J", "K", "L",
             "M", "N", "O", "P", "Q", "R", "S", "T", "U", "V", "W", "X",
             "Y", "Z", "a", "b", "c", "d", "e", "f", "g", "h", "i", "j",
             "k", "l", "m", "n", "o", "p", "q", "r", "s", "t", "u", "v",
             "w", "x", "y", "z", "0", "1", "2", "3", "4", "5", "6", "7",
             "8", "9", "+", "/"}
\* base64.StdEncoding.DecodeString: the decoded bytes are kept as the text
\* that encodes them
DecodeString(s) ==
    LET n == Len(s)
        pad == IF n >= 2 /\ s[n] = "=" /\ s[n - 1] = "=" THEN 2
               ELSE IF n >= 1 /\ s[n] = "=" THEN 1 ELSE 0
    IN  IF n % 4 = 0 /\ \A k \in 1..(n - pad) : s[k] \in encodeStd
        THEN [err |-> "nil", v |-> s]
        ELSE [err |-> "FormatError", v |-> <<>>]

RECURSIVE parseRecord(_)
RECURSIVE parseQuoted(_, _)
\* the rest of a quoted field of csv.Reader: field holds what was read of it
parseQuoted(line, field) ==
    LET i == IndexOf(line, Quote)
        after == Drop(line, i)
        rest == parseRecord(Tail(after))
    IN  IF i = 0 THEN [err |-> "ParseError", rec |-> <<>>]
        ELSE IF after = <<>> THEN [err |-> "nil", rec |-> <<field \o Take(line, i - 1)>>]
        ELSE IF after[1] = Quote
        THEN parseQuoted(Tail(after), field \o Take(line, i - 1) \o <<Quote>>)
        ELSE IF after[1] = ","
        THEN [err |-> rest.err, rec |-> <<field \o Take(line, i - 1)>> \o rest.rec]
        ELSE [err |-> "ParseError", rec |-> <<>>]
\* the fields of one line of csv.Reader (Comma ',', LazyQuotes false)
parseRecord(line) ==
    IF Len(line) > 0 /\ line[1] = Quote THEN parseQuoted(Tail(line), <<>>)
    ELSE LET i == IndexOf(line, ",")
             field == IF i = 0 THEN line ELSE Take(line, i - 1)
             rest == parseRecord(Drop(line, i))
         IN  IF Contains(field, Quote) THEN [err |-> "ParseError", rec |-> <<>>]
             ELSE IF i = 0 THEN [err |-> "nil", rec |-> <<field>>]
             ELSE [err |-> rest.err, rec |-> <<field>> \o rest.rec]

\* csv.NewReader(strings.NewReader(s)).Read() for a text of one line: the
\* empty text is the end of the input
csvReaderRead(s) ==
    IF s = <<>> THEN [err |-> "EOF", rec |-> <<>>] ELSE parseRecord(s)

(***************************************************************************)
(* Go types and values.  A type is named as Go writes it; Kind, Elem and   *)
(* WellKnownType are what reflect and XXX_WellKnownType() answer for it.   *)
(* A value is a record of one shape: k says what it is, t holds a text, n  *)
(* and m hold numbers, e holds the elements of a list.                     *)
(***************************************************************************)
ScalarTypes == {"bool", "int32", "int64", "uint32", "uint64", "float32", "float64", "string"}
WrapperTypes == {"DoubleValue", "FloatValue", "Int64Value", "UInt64Value", "Int32Value",
                 "UInt32Value", "BoolValue", "StringValue", "BytesValue"}
WellKnownTypes == WrapperTypes \cup {"Any", "Duration", "Timestamp", "ListValue", "Value", "Struct"}
\* a message of the tests that is none of the well-known types
MessageTypes == {"Simple"}
StructTypes == WellKnownTypes \cup MessageTypes
PtrTypes == {"*bool", "*int32", "*int64", "*uint32", "*uint64", "*float32", "*float64",
             "*string", "*DoubleValue", "*FloatValue", "*Int64Value", "*UInt64Value",
             "*Int32Value", "*UInt32Value", "*BoolValue", "*StringValue", "*BytesValue",
             "*Any", "*Duration", "*Timestamp", "*ListValue", "*Value", "*Struct",
             "*Simple"}
SliceTypes == {"[]uint8", "[]bool", "[]int32", "[]uint32", "[]float64", "[]string",
               "[]*Value", "[]*Simple"}
MapTypes == {"map[string]string"}

Kind(t) ==
    IF t \in PtrTypes THEN "ptr"
    ELSE IF t \in SliceTypes THEN "slice"
    ELSE IF t \in StructTypes THEN "struct"
    ELSE IF t \in MapTypes THEN "map"
    ELSE t
\* targetType.Elem() of a pointer or slice type
Elem ==
    ("*bool" :> "bool" @@ "*int32" :> "int32" @@ "*int64" :> "int64"
     @@ "*uint32" :> "uint32" @@ "*uint64" :> "uint64" @@ "*float32" :> "float32"
     @@ "*float64" :> "float64" @@ "*string" :> "string"
     @@ "*DoubleValue" :> "DoubleValue" @@ "*FloatValue" :> "FloatValue"
     @@ "*Int64Value" :> "Int64Value" @@ "*UInt64Value" :> "UInt64Value"
     @@ "*Int32Value" :> "Int32Value" @@ "*UInt32Value" :> "UInt32Value"
     @@ "*BoolValue" :> "BoolValue" @@ "*StringValue" :> "StringValue"
     @@ "*BytesValue" :> "BytesValue" @@ "*Any" :> "Any" @@ "*Duration" :> "Duration"
     @@ "*Timestamp" :> "Timestamp" @@ "*ListValue" :> "ListValue" @@ "*Value" :> "Value"
     @@ "*Struct" :> "Struct" @@ "*Simple" :> "Simple"
     @@ "[]uint8" :> "uint8" @@ "[]bool" :> "bool" @@ "[]int32" :> "int32"
     @@ "[]uint32" :> "uint32" @@ "[]float64" :> "float64" @@ "[]string" :> "string"
     @@ "[]*Value" :> "*Value" @@ "[]*Simple" :> "*Simple")
\* the type of target.Field(0) of the well-known types that are decoded
\* through their first field
Field0 ==
    ("DoubleValue" :> "float64" @@ "FloatValue" :> "float32" @@ "Int64Value" :> "int64"
     @@ "UInt64Value" :> "uint64" @@ "Int32Value" :> "int32" @@ "UInt32Value" :> "uint32"
     @@ "BoolValue" :> "bool" @@ "StringValue" :> "string" @@ "BytesValue" :> "[]uint8"
     @@ "ListValue" :> "[]*Value")
WellKnownType(t) == IF t \in WellKnownTypes THEN t ELSE ""

Val(k, t, n, m, e) == [k |-> k, t |-> t, n |-> n, m |-> m, e |-> e]
\* a nil pointer or nil slice
Unset == Val("unset", <<>>, 0, 0, <<>>)
\* the zero value of a type that is no pointer and no slice
Zero == Val("zero", <<>>, 0, 0, <<>>)
Text(k, t) == Val(k, t, 0, 0, <<>>)
ZeroOf(t) == IF Kind(t) \in {"ptr", "slice", "map"} THEN Unset ELSE Zero

\* proto.EnumValueMap of the enum pb.Widget_Color, and the text "null"
Widget_Color_value == (<<"R", "E", "D">> :> <<"0">> @@ <<"G", "R", "E", "E", "N">> :> <<"1">> @@ <<"B", "L", "U", "E">> :> <<"2">>)
EnumValueMap(enum) == IF enum = "Widget_Color" THEN Widget_Color_value ELSE <<>>
null == <<"n", "u", "l", "l">>
\* the keys of the map nonFinite
nonFinite == {<<"\"", "N", "a", "N", "\"">>, <<"\"", "I", "n", "f", "i", "n", "i", "t", "y", "\"">>, <<"\"", "-", "I", "n", "f", "i", "n", "i", "t", "y", "\"">>}

Ok(val) == [val |-> val, err |-> "nil"]
\* an error return: the target keeps the value dst.val it had
Fail(dst, e) == [val |-> dst.val, err |-> e]
\* the target after the conversion p of a text: p.v as a value of kind k, or
\* the error of the conversion
Converted(dst, p, k) == IF p.err # "nil" THEN Fail(dst, p.err) ELSE Ok(Text(k, p.v))
\* target.SetBool of the result p of strconv.ParseBool
ConvertedBool(dst, p) ==
    IF p.err # "nil" THEN Fail(dst, p.err)
    ELSE Ok(Val("bool", <<>>, IF p.v THEN 1 ELSE 0, 0, <<>>))

\* the switch on targetType.Kind() at the end of unmarshalValue
unmarshalKind(dst, s) ==
    IF Kind(dst.type) = "float32" THEN Converted(dst, ParseFloat(s, 32), "float")
    ELSE IF Kind(dst.type) = "float64" THEN Converted(dst, ParseFloat(s, 64), "float")
    ELSE IF Kind(dst.type) = "int32" THEN Converted(dst, ParseInt(s, 32), "int")
    ELSE IF Kind(dst.type) = "int64" THEN Converted(dst, ParseInt(s, 64), "int")
    ELSE IF Kind(dst.type) = "uint32" THEN Converted(dst, ParseUint(s, 32), "uint")
    ELSE IF Kind(dst.type) = "uint64" THEN Converted(dst, ParseUint(s, 64), "uint")
    ELSE IF Kind(dst.type) = "string" THEN Ok(Text("string", s))
    ELSE Fail(dst, "UnsupportedError")

\* the same from the bool case on, with the quotes of a number left in place
unmarshalScalar_KeepQuotes(dst, s) ==
    LET isBool == Kind(dst.type) = "bool"
        isFloat == Kind(dst.type) \in {"float32", "float64"}
        quoted == HasPrefix(s, <<Quote>>)
    IN  IF isBool
        THEN IF ~quoted THEN ConvertedBool(dst, ParseBool(ToLower(s)))
             ELSE IF StripEnds(s).panic THEN Fail(dst, "panic")
             ELSE ConvertedBool(dst, ParseBool(ToLower(StripEnds(s).s)))
        ELSE IF isFloat /\ s \in nonFinite THEN Ok(Text("float", StripEnds(s).s))
        ELSE unmarshalKind(dst, s)

\* unmarshalValue from the bool case on: s is inputValue, trimmed if the
\* field is an enum
unmarshalScalar(dst, s) ==
    LET isBool == Kind(dst.type) = "bool"
        isFloat == Kind(dst.type) \in {"float32", "float64"}
        isNum == Kind(dst.type) \in {"int64", "uint64", "int32", "uint32", "float32", "float64"}
        quoted == HasPrefix(s, <<Quote>>)
    IN  IF isBool
        THEN IF ~quoted THEN ConvertedBool(dst, ParseBool(ToLower(s)))
             ELSE IF StripEnds(s).panic THEN Fail(dst, "panic")
             ELSE ConvertedBool(dst, ParseBool(ToLower(StripEnds(s).s)))
        ELSE IF isFloat /\ s \in nonFinite THEN Ok(Text("float", StripEnds(s).s))
        ELSE IF ~(isNum /\ quoted) THEN unmarshalKind(dst, s)
        ELSE IF StripEnds(s).panic THEN Fail(dst, "panic")
        ELSE unmarshalKind(dst, StripEnds(s).s)

\* an enum case that takes names only
unmarshalEnum_NamesOnly(dst, s, vmap) ==
    IF s \in DOMAIN vmap
    THEN IF Kind(dst.type) # "int32" THEN Fail(dst, "EnumError") ELSE Ok(Text("int", vmap[s]))
    ELSE Fail(dst, "EnumError")

\* the enum case of unmarshalValue; s is strings.TrimSpace(inputValue)
unmarshalEnum(dst, s, vmap) ==
    IF s \in DOMAIN vmap
    THEN IF Kind(dst.type) # "int32" THEN Fail(dst, "EnumError") ELSE Ok(Text("int", vmap[s]))
    ELSE IF ParseUint(s, 32).err # "nil" THEN Fail(dst, "EnumError")
    ELSE unmarshalScalar(dst, s)

\* a test for "null" that spares the wrapper types only
nullIsNotSet_WrappersOnly(targetType, raw) ==
    raw = null /\ Elem[targetType] \in WrapperTypes

\* the test of a pointer target for the text "null": the target is left as
\* it is unless it is a *structpb.Value
nullIsNotSet(targetType, raw) ==
    raw = null /\ targetType # "*Value"

\* the case "Value" with strconv.ParseBool tried on every text
unmarshalDynamic_NoReservedTokens(ivStr, f, b) ==
    IF ivStr = <<>> THEN Ok(Text("NullValue", <<>>))
    ELSE IF Contains(ivStr, ".") /\ f.err = "nil" THEN Ok(Text("NumberValue", f.v))
    ELSE IF b.err = "nil" THEN Ok(Val("BoolValue", <<>>, IF b.v THEN 1 ELSE 0, 0, <<>>))
    ELSE IF f.err = "nil" THEN Ok(Text("NumberValue", f.v))
    ELSE Ok(Text("StringValue", ivStr))

\* the case "Value" of unmarshalValue; f and b are what strconv.ParseFloat
\* and strconv.ParseBool make of ivStr
unmarshalDynamic(ivStr, f, b) ==
    IF ivStr = <<>> THEN Ok(Text("NullValue", <<>>))
    ELSE IF Contains(ivStr, ".") /\ f.err = "nil" THEN Ok(Text("NumberValue", f.v))
    ELSE IF /\ ivStr \notin {<<"1">>, <<"t">>, <<"T">>, <<"0">>, <<"f">>, <<"F">>}
            /\ b.err = "nil"
    THEN Ok(Val("BoolValue", <<>>, IF b.v THEN 1 ELSE 0, 0, <<>>))
    ELSE IF f.err = "nil" THEN Ok(Text("NumberValue", f.v))
    ELSE Ok(Text("StringValue", ivStr))

\* the case "Duration": d is the result of time.ParseDuration
unmarshalDuration(dst, d) ==
    IF d.err # "nil" THEN Fail(dst, "FormatError")
    ELSE Ok(Val("Duration", <<>>, Quo(d.d, SecondInNanos), Rem(d.d, SecondInNanos), <<>>))

\* the case "Timestamp": ts is the result of time.Parse
unmarshalTimestamp(dst, ts) ==
    IF ts.err # "nil" THEN Fail(dst, "FormatError")
    ELSE Ok(Val("Timestamp", <<>>, ts.t.sec, ts.t.nsec, <<>>))

RECURSIVE unmarshalValue(_, _, _)
RECURSIVE unmarshalElems(_, _, _, _)
\* one turn of the loop over the elements: u is what unmarshalValue made of
\* the element after those in got; an error ends the loop and leaves the
\* rest of the elements zero
unmarshalElem(t, s, prop, got, u) ==
    IF u.err # "nil"
    THEN [val |-> Val("list", <<>>, 0, 0,
                      got \o <<u.val>> \o [k \in 1..(Len(s) - Len(got) - 1) |-> ZeroOf(t)]),
          err |-> u.err]
    ELSE unmarshalElems(t, s, prop, got \o <<u.val>>)

\* the loops of unmarshalValue over the elements of a ListValue or of a
\* slice: the elements are of type t, their texts are in s, those in got are
\* decoded
unmarshalElems(t, s, prop, got) ==
    IF Len(got) = Len(s) THEN Ok(Val("list", <<>>, 0, 0, got))
    ELSE unmarshalElem(t, s, prop, got,
                       unmarshalValue([type |-> t, val |-> ZeroOf(t)], s[Len(got) + 1], prop))

\* the elements of a ListValue or slice, from the record r that csv.Reader
\* made of the text; e is the error returned when it made none
unmarshalList(dst, t, r, prop, e) ==
    IF r.err # "nil" THEN Fail(dst, e) ELSE unmarshalElems(t, r.rec, prop, <<>>)

\* unmarshalValue: dst is the type and the present value of the target the
\* cell raw (inputValue) is decoded into; the result is the value the target
\* holds afterwards and the error.  No type of the model implements
\* CSVPBUnmarshaler.
unmarshalValue(dst, raw, prop) ==
    LET targetType == dst.type
        w == WellKnownType(targetType)
    IN  IF Kind(targetType) = "ptr"
        THEN IF nullIsNotSet(targetType, raw)
             THEN Ok(dst.val)
             ELSE unmarshalValue([type |-> Elem[targetType], val |-> Zero], raw, prop)
        ELSE IF w \in WrapperTypes
        THEN unmarshalValue([type |-> Field0[targetType], val |-> dst.val], raw, prop)
        ELSE IF w = "Any" THEN Fail(dst, "UnsupportedError")
        ELSE IF w = "Duration" THEN unmarshalDuration(dst, ParseDuration(raw))
        ELSE IF w = "Timestamp" THEN unmarshalTimestamp(dst, ParseTime(raw))
        ELSE IF w = "ListValue"
        THEN IF raw = <<>> THEN Ok(Val("list", <<>>, 0, 0, <<>>))
             ELSE unmarshalList(dst, "*Value", csvReaderRead(raw), prop, "FormatError")
        ELSE IF w = "Value" THEN unmarshalDynamic(raw, ParseFloat(raw, 0), ParseBool(raw))
        ELSE IF Kind(targetType) = "struct" THEN Fail(dst, "UnsupportedError")
        ELSE IF Kind(targetType) = "slice"
        THEN IF Elem[targetType] = "uint8" THEN Converted(dst, DecodeString(raw), "bytes")
             ELSE unmarshalList(dst, Elem[targetType], csvReaderRead(raw), prop,
                                csvReaderRead(raw).err)
        ELSE IF prop.Enum # ""
        THEN unmarshalEnum(dst, TrimSpace(raw), EnumValueMap(prop.Enum))
        ELSE unmarshalScalar(dst, raw)

(***************************************************************************)
(* csvpb.Unmarshaler: UnmarshalNext, unmarshalRecord, csvUnmarshal,        *)
(* consumeField, checkRequiredFields.                                      *)
(* The target message type has two ordinary fields and one oneof group     *)
(* ("Union") with two alternatives, after pb.MsgWithRequired, pb.Simple    *)
(* and pb.MsgWithOneof of the tests.  type is the Go type of the struct    *)
(* field (of the first field of the wrapper struct for an alternative),    *)
(* Enum the name of its enum, "" when it has none.                         *)
(***************************************************************************)
Props == <<
    [name |-> "OInt32", orig |-> "o_int32", camel |-> "oInt32",
     required |-> FALSE, type |-> "*int32", Enum |-> ""],
    [name |-> "Str", orig |-> "str", camel |-> "str",
     required |-> TRUE, type |-> "*string", Enum |-> ""] >>

OneofTypes == {
    [name |-> "Salary", orig |-> "salary", camel |-> "salary",
     required |-> FALSE, type |-> "int32", Enum |-> ""],
    [name |-> "HomeAddress", orig |-> "home_address", camel |-> "homeAddress",
     required |-> FALSE, type |-> "string", Enum |-> ""] }

\* header names and cells of the inputs
Names == {"str", "o_int32", "oInt32", "salary", "home_address", "homeAddress", "unknown"}
Cells == {<<"1">>, <<"x">>, null}

NoUnion == [alt |-> "none", val |-> Unset]
EmptyTarget == [Str |-> Unset, OInt32 |-> Unset, Union |-> NoUnion]

\* all orders in which range may visit the entries of a Go map
Orders(S) == {o \in [1..Cardinality(S) -> S] : \A a \in S : \E k \in DOMAIN o : o[k] = a}

\* csvUnmarshal: zips fieldNames with fields into the map; fields[i] panics
\* with index out of range when the record is shorter than the header
csvUnmarshal(fieldNames, fields) ==
    IF Len(fields) < Len(fieldNames)
    THEN [panic |-> TRUE, csvFields |-> <<>>]
    ELSE [panic |-> FALSE,
          csvFields |->
            [nm \in {fieldNames[k] : k \in 1..Len(fieldNames)} |->
                fields[CHOOSE k \in 1..Len(fieldNames) :
                          /\ fieldNames[k] = nm
                          /\ \A j \in (k+1)..Len(fieldNames) : fieldNames[j] # nm]]]

\* delete(csvFields, key)
MapDelete(m, key) == [nm \in (DOMAIN m) \ {key} |-> m[nm]]

\* acceptedJSONFieldNames
acceptedJSONFieldNames(prop) == [orig |-> prop.orig, camel |-> prop.camel]

\* consumeField preferring the original name and removing only the key it read
consumeField_OrigWins(csvFields, prop) ==
    LET fieldNames == acceptedJSONFieldNames(prop)
        okOrig == fieldNames.orig \in DOMAIN csvFields
        okCamel == fieldNames.camel \in DOMAIN csvFields
    IN  IF ~okOrig /\ ~okCamel
        THEN [raw |-> <<>>, ok |-> FALSE, csvFields |-> csvFields]
        ELSE [raw |-> IF okOrig THEN csvFields[fieldNames.orig]
                                ELSE csvFields[fieldNames.camel],
              ok |-> TRUE,
              csvFields |-> MapDelete(csvFields, IF okOrig THEN fieldNames.orig
                                                 ELSE fieldNames.camel)]

\* consumeField closure of unmarshalRecord
consumeField(csvFields, prop) ==
    LET fieldNames == acceptedJSONFieldNames(prop)
        okOrig == fieldNames.orig \in DOMAIN csvFields
        okCamel == fieldNames.camel \in DOMAIN csvFields
    IN  IF ~okOrig /\ ~okCamel
        THEN [raw |-> <<>>, ok |-> FALSE, csvFields |-> csvFields]
        ELSE [raw |-> IF okCamel THEN csvFields[fieldNames.camel]
                                 ELSE csvFields[fieldNames.orig],
              ok |-> TRUE,
              csvFields |-> MapDelete(MapDelete(csvFields, fieldNames.orig),
                                      fieldNames.camel)]

\* the loop over the struct fields of unmarshalRecord, from field i on
RECURSIVE fieldLoop(_, _, _)
\* a loop that goes on to the next field after an error
fieldStore_GoOn(i, rest, tgt, u) ==
    fieldLoop(i + 1, rest, [tgt EXCEPT ![Props[i].name] = u.val])

\* what the loop does with the result u of unmarshalValue for field i
fieldStore(i, rest, tgt, u) ==
    IF u.err # "nil"
    THEN [csvFields |-> rest, target |-> [tgt EXCEPT ![Props[i].name] = u.val], err |-> u.err]
    ELSE fieldLoop(i + 1, rest, [tgt EXCEPT ![Props[i].name] = u.val])

\* what the loop does with the result c of consumeField for field i
fieldStep(i, csvFields, tgt, c) ==
    IF ~c.ok THEN fieldLoop(i + 1, csvFields, tgt)
    ELSE fieldStore(i, c.csvFields, tgt,
                    unmarshalValue([type |-> Props[i].type, val |-> tgt[Props[i].name]],
                                   c.raw, Props[i]))

fieldLoop(i, csvFields, tgt) ==
    IF i > Len(Props) THEN [csvFields |-> csvFields, target |-> tgt, err |-> "nil"]
    ELSE fieldStep(i, csvFields, tgt, consumeField(csvFields, Props[i]))

\* the loop over sprops.OneofTypes of unmarshalRecord, visited in order
RECURSIVE oneofLoop(_, _, _, _)
\* what the loop does with the result u of unmarshalValue for alternative i:
\* the wrapper holding the value is stored in the oneof field before the error is looked at
oneofStore(i, order, rest, set, u) ==
    IF u.err # "nil" THEN [csvFields |-> rest, target |-> set, err |-> u.err]
    ELSE oneofLoop(i + 1, order, rest, set)

\* what the loop does with the result c of consumeField for alternative i
oneofStep(i, order, csvFields, tgt, c, u) ==
    IF ~c.ok THEN oneofLoop(i + 1, order, csvFields, tgt)
    ELSE oneofStore(i, order, c.csvFields,
                    [tgt EXCEPT !.Union = [alt |-> order[i].name, val |-> u.val]], u)

oneofValue(p, c) == unmarshalValue([type |-> p.type, val |-> Zero], c.raw, p)

oneofLoop(i, order, csvFields, tgt) ==
    IF i > Len(order) THEN [csvFields |-> csvFields, target |-> tgt, err |-> "nil"]
    ELSE oneofStep(i, order, csvFields, tgt, consumeField(csvFields, order[i]),
                   oneofValue(order[i], consumeField(csvFields, order[i])))

\* unmarshalRecord after the loop over sprops.OneofTypes returned o
recordDone(o, allow) ==
    IF o.err # "nil" THEN [target |-> o.target, err |-> o.err]
    ELSE IF ~allow /\ DOMAIN o.csvFields # {}
    THEN [target |-> o.target, err |-> "UnknownFieldError"]
    ELSE [target |-> o.target, err |-> "nil"]

\* unmarshalRecord after the loop over the struct fields returned f
recordOneofs(f, order) ==
    IF f.err # "nil" THEN f
    ELSE IF DOMAIN f.csvFields # {} THEN oneofLoop(1, order, f.csvFields, f.target)
    ELSE [csvFields |-> f.csvFields, target |-> f.target, err |-> "nil"]

\* unmarshalRecord after csvUnmarshal returned m
recordFields(tgt, m, allow, order) ==
    IF m.panic THEN [target |-> tgt, err |-> "panic"]
    ELSE recordDone(recordOneofs(fieldLoop(1, m.csvFields, tgt), order), allow)

\* unmarshalRecord without the check of the names left in the map
unmarshalRecord_IgnoreUnknown(tgt, inputRecord, hdr, allow, order) ==
    recordFields(tgt, csvUnmarshal(hdr, inputRecord), TRUE, order)

\* unmarshalRecord for a struct target
unmarshalRecord(tgt, inputRecord, hdr, allow, order) ==
    recordFields(tgt, csvUnmarshal(hdr, inputRecord), allow, order)

(***************************************************************************)
(* checkRequiredFields.  A message is the sequence of its struct fields in *)
(* declaration order; a field says what reflect and proto.Properties tell  *)
(* of it: its Kind, Required, Repeated, whether it is nil, and the         *)
(* messages it holds (msgs: the pointee of a pointer to a message, the     *)
(* elements of a repeated message field, the values of a map in the order  *)
(* MapKeys returned them).  A oneof field holds in alt the first field of  *)
(* the wrapper struct of the active alternative.  No message of the model  *)
(* has extensions.                                                         *)
(***************************************************************************)
StructField(name, kind, required, repeated, isNil, msgs) ==
    [name |-> name, oneof |-> FALSE, Kind |-> kind, Required |-> required,
     Repeated |-> repeated, IsNil |-> isNil, msgs |-> msgs, alt |-> <<>>]
OneofField(name, alt) ==
    [name |-> name, oneof |-> TRUE, Kind |-> "interface", Required |-> FALSE,
     Repeated |-> FALSE, IsNil |-> alt = <<>>, msgs |-> <<>>, alt |-> alt]
Message(fields) == [wkt |-> FALSE, fields |-> fields]
NoError == [err |-> "nil", name |-> ""]
NotSet(name) == [err |-> "RequiredFieldMissingError", name |-> name]

RECURSIVE checkRequiredFields(_)
RECURSIVE checkRequiredFieldsFrom(_, _)
RECURSIVE checkRequiredFieldsInValues(_)
\* a check that does not descend into the messages a field holds
checkRequiredFieldsInValues_Skip(ms) == NoError

\* checkRequiredFieldsInValue on each message of ms in turn, up to the first error
checkRequiredFieldsInValues(ms) ==
    IF ms = <<>> THEN NoError
    ELSE IF checkRequiredFields(Head(ms)).err # "nil" THEN checkRequiredFields(Head(ms))
    ELSE checkRequiredFieldsInValues(Tail(ms))

\* the loop of checkRequiredFields over the struct fields, from field i on
checkRequiredFieldsFrom(pb, i) ==
    IF i > Len(pb.fields) THEN NoError
    ELSE LET sfield == pb.fields[i]
             skip == sfield.oneof /\ sfield.alt = <<>>
             field == IF sfield.oneof /\ ~skip THEN sfield.alt[1] ELSE sfield
             here ==
                IF skip THEN NoError
                ELSE IF field.Kind = "map"
                THEN IF field.IsNil THEN NoError ELSE checkRequiredFieldsInValues(field.msgs)
                ELSE IF field.Kind = "slice"
                THEN IF ~field.Repeated
                     THEN IF field.Required /\ field.IsNil THEN NotSet(field.name) ELSE NoError
                     ELSE IF field.IsNil THEN NoError
                     ELSE checkRequiredFieldsInValues(field.msgs)
                ELSE IF field.Kind = "ptr"
                THEN IF field.IsNil
                     THEN IF field.Required THEN NotSet(field.name) ELSE NoError
                     ELSE checkRequiredFieldsInValues(field.msgs)
                ELSE NoError
         IN  IF here.err # "nil" THEN here ELSE checkRequiredFieldsFrom(pb, i + 1)

\* checkRequiredFields(pb)
checkRequiredFields(pb) == IF pb.wkt THEN NoError ELSE checkRequiredFieldsFrom(pb, 1)

\* the message value of the target of the assembler
MessageOf(tgt) ==
    Message([k \in 1..Len(Props) |->
                StructField(Props[k].name, Kind(Props[k].type), Props[k].required, FALSE,
                            tgt[Props[k].name] = Unset, <<>>)]
            \o <<OneofField("Union",
                            IF tgt.Union.alt = "none" THEN <<>>
                            ELSE LET a == CHOOSE o \in OneofTypes : o.name = tgt.Union.alt
                                 IN  <<StructField(a.name, Kind(a.type), FALSE, FALSE, FALSE, <<>>)>>)>>)

\* the Unmarshaler and the result of dec.Decode() before UnmarshalNext runs
InitAsm ==
    /\ Header \in SeqsUpTo(Names, MaxCols)
    /\ AllowUnknownFields \in BOOLEAN
    /\ inputValue \in SeqsUpTo(Cells, MaxCols)
    /\ decodeErr \in {"nil", "TokenizeError"}
    /\ target = EmptyTarget
    /\ oneofOrder = <<>>
    /\ recErr = "none"
    /\ result = "none"

AsmIdle ==
    /\ Header = <<>> /\ AllowUnknownFields = FALSE
    /\ inputValue = <<>> /\ decodeErr = "nil"
    /\ target = EmptyTarget /\ oneofOrder = <<>>
    /\ recErr = "none" /\ result = "none"

\* the result of UnmarshalNext once unmarshalRecord returned r and, where it
\* returned no error, checkRequiredFields returned q
unmarshalNextResult(r, q) ==
    IF r.err # "nil" THEN r.err ELSE IF q.err # "nil" THEN q.err ELSE "ok"

\* the assignments of UnmarshalNext when dec.Decode() gave no error
unmarshalNextStore(order, r) ==
    /\ target' = r.target
    /\ oneofOrder' = order
    /\ recErr' = r.err
    /\ result' = unmarshalNextResult(r, checkRequiredFields(MessageOf(r.target)))

\* (*Unmarshaler).UnmarshalNext, given what dec.Decode() returned
UnmarshalNext ==
    /\ result = "none"
    /\ \E order \in Orders(OneofTypes) :
         IF decodeErr # "nil"
         THEN /\ result' = decodeErr
              /\ UNCHANGED <<target, oneofOrder, recErr>>
         ELSE unmarshalNextStore(order, unmarshalRecord(target, inputValue, Header,
                                                        AllowUnknownFields, order))
    /\ UNCHANGED <<Header, AllowUnknownFields, inputValue, decodeErr>>
    /\ UNCHANGED <<splitVars, decVars, valVars, reqVars, unmVars>>

NextAsm == UnmarshalNext

(***************************************************************************)
(* unmarshalValue applied to one cell of one field.  The cells are all the *)
(* texts of up to MaxRaw characters over Chars together with the texts of  *)
(* the tests (NamedTexts); the fields are all the types a schema can give  *)
(* a field, the int32 ones also as fields of the enum pb.Widget_Color.     *)
(***************************************************************************)
Chars == {"0", "1", ".", "-", "s", "t", Quote, ",", " "}
NamedTexts == {
    <<"n", "u", "l", "l">>,
    <<"t", "r", "u", "e">>,
    <<"T", "r", "u", "e">>,
    <<"T", "R", "U", "E">>,
    <<"f", "a", "l", "s", "e">>,
    <<"x">>,
    <<"T">>,
    <<"f">>,
    <<"F">>,
    <<"4">>,
    <<"4", "s">>,
    <<"3", ".", "0", "0", "0", "s">>,
    <<"1", "m">>,
    <<"2", "h">>,
    <<"5", "m", "s">>,
    <<"1", "h", "3", "0", "m">>,
    <<"-", "1", ".", "5", "s">>,
    <<"B", "L", "U", "E">>,
    <<" ", "2">>,
    <<"1", "0", "0", "0">>,
    <<"2", "1", "4", "7", "4", "8", "3", "6", "4", "7">>,
    <<"2", "1", "4", "7", "4", "8", "3", "6", "4", "8">>,
    <<"4", "2", "9", "4", "9", "6", "7", "2", "9", "5">>,
    <<"4", "2", "9", "4", "9", "6", "7", "2", "9", "6">>,
    <<"N", "a", "N">>,
    <<"I", "n", "f", "i", "n", "i", "t", "y">>,
    <<"\"", "N", "a", "N", "\"">>,
    <<"i", "n", "f">>,
    <<"\"", "1", "2", "x">>,
    <<"\"", "t", "r", "u", "e", "x">>,
    <<"\"", "-", "3", "1", "4", "\"">>,
    <<"\"", "1", ".", "5", "\"">>,
    <<"\"", "t", "r", "u", "e", "\"">>,
    <<"x", ",", "n", "u", "l", "l", ",", "3", ",", "t", "r", "u", "e">>,
    <<"R", "E", "D", ",", "G", "R", "E", "E", "N">>,
    <<"A", "A", "=", "=">>,
    <<"2", "0", "1", "4", "-", "0", "5", "-", "1", "3", "T", "1", "6", ":", "5", "3", ":", "2", "0", "Z">>,
    <<"2", "0", "1", "4", "-", "0", "5", "-", "1", "3", "T", "1", "6", ":", "5", "3", ":", "2", "0", ".", "0", "2", "1", "Z">>}
RawTexts == SeqsUpTo(Chars, MaxRaw) \cup NamedTexts
FieldTypes == ScalarTypes \cup PtrTypes \cup SliceTypes \cup MapTypes
EnumFieldTypes == {"int32", "*int32", "[]int32"}

ValIdle ==
    /\ vType = "string" /\ vEnum = "" /\ vText = <<>>
    /\ vOut = [val |-> Zero, err |-> "none"]

InitVal ==
    /\ vType \in FieldTypes
    /\ vEnum \in {""} \cup (IF vType \in EnumFieldTypes THEN {"Widget_Color"} ELSE {})
    /\ vText \in RawTexts
    /\ vOut = [val |-> ZeroOf(vType), err |-> "none"]

\* u.unmarshalValue(target.Field(i), valueForField, sprops.Prop[i], NONE)
unmarshalValueCall ==
    /\ vOut.err = "none"
    /\ vOut' = unmarshalValue([type |-> vType, val |-> vOut.val], vText, [Enum |-> vEnum])
    /\ UNCHANGED <<vType, vEnum, vText>>
    /\ UNCHANGED <<splitVars, decVars, asmVars, reqVars, unmVars>>

NextVal == unmarshalValueCall

(***************************************************************************)
(* checkRequiredFields applied to one message, as UnmarshalNext applies it *)
(* to the message it assembled into.  The messages are those of a type     *)
(* after pb.MsgWithIndirectRequired, pb.MsgWithRequiredBytes and           *)
(* pb.MsgWithOneof of the tests:                                           *)
(*   required string str; optional Sub subm; map<string, Sub> map_field;   *)
(*   repeated Sub slice_field; oneof union { int32 salary; Sub msg };      *)
(*   required bytes byts                                                   *)
(* with  Sub { required string x; required string y }.  A nil pointer is   *)
(* an unset field.                                                         *)
(***************************************************************************)
SubMessages ==
    {Message(<<StructField("X", "ptr", TRUE, FALSE, x, <<>>),
               StructField("Y", "ptr", TRUE, FALSE, y, <<>>)>>) : x, y \in BOOLEAN}
\* what a map or repeated field of Sub can hold: nil, or up to MaxRep messages
SubLists == {[IsNil |-> TRUE, msgs |-> <<>>]}
               \cup {[IsNil |-> FALSE, msgs |-> ms] : ms \in SeqsUpTo(SubMessages, MaxRep)}
Messages ==
    {Message(<<StructField("Str", "ptr", TRUE, FALSE, str, <<>>),
               StructField("Subm", "ptr", FALSE, FALSE, subm = <<>>, subm),
               StructField("MapField", "map", FALSE, FALSE, mp.IsNil, mp.msgs),
               StructField("SliceField", "slice", FALSE, TRUE, sl.IsNil, sl.msgs),
               OneofField("Union", un),
               StructField("Byts", "slice", TRUE, FALSE, byts, <<>>)>>) :
        str \in BOOLEAN, subm \in SeqsUpTo(SubMessages, 1), mp \in SubLists, sl \in SubLists,
        un \in {<<>>, <<StructField("Salary", "int32", FALSE, FALSE, FALSE, <<>>)>>}
                  \cup {<<StructField("Msg", "ptr", FALSE, FALSE, FALSE, <<m>>)>> : m \in SubMessages},
        byts \in BOOLEAN}

ReqIdle == pbMsg = Message(<<>>) /\ pbErr = [err |-> "none", name |-> ""]

InitReq == pbMsg \in Messages /\ pbErr = [err |-> "none", name |-> ""]

\* return checkRequiredFields(pb), the last statement of UnmarshalNext
checkRequiredFieldsCall ==
    /\ pbErr.err = "none"
    /\ pbErr' = checkRequiredFields(pbMsg)
    /\ UNCHANGED pbMsg
    /\ UNCHANGED <<splitVars, decVars, asmVars, valVars, unmVars>>

NextReq == checkRequiredFieldsCall

(***************************************************************************)
(* Unmarshaler.Unmarshal called on one stream after the other with the    *)
(* same Unmarshaler and a fresh message each time.  A stream is a sequence *)
(* of well-formed lines of one field each; the field is a text, which the  *)
(* header line turns into a name.  A nil Header is the empty sequence (the *)
(* csv.Reader never returns a record without fields).                      *)
(***************************************************************************)
FieldTexts == {<<"s", "t", "r">>, <<"o", "_", "i", "n", "t", "3", "2">>, <<"1">>, <<"x">>}
\* the Go string of a field text, as it is used for a name of the header
NameOf == (<<"s", "t", "r">> :> "str" @@ <<"o", "_", "i", "n", "t", "3", "2">> :> "o_int32"
           @@ <<"1">> :> "1" @@ <<"x">> :> "x")
Streams == SeqsUpTo(FieldTexts, MaxLines)

UnmIdle == uStreams = <<>> /\ uCalls = 0 /\ uPreset = FALSE

\* an Unmarshaler, with or without a Header set by the caller, and the
\* streams it is going to be called with
InitUnm ==
    /\ uStreams \in Streams \X Streams
    /\ uCalls = 0
    /\ uPreset \in BOOLEAN
    /\ Header = IF uPreset THEN <<"str">> ELSE <<>>
    /\ AllowUnknownFields = FALSE
    /\ inputValue = <<>> /\ decodeErr = "nil"
    /\ target = EmptyTarget /\ oneofOrder = <<>>
    /\ recErr = "none" /\ result = "none"

\* csvReader.Read() on the lines ls: the first line as a record, or io.EOF
streamRead(ls) ==
    IF ls = <<>> THEN [rec |-> <<>>, err |-> "EOF", rest |-> ls]
    ELSE [rec |-> <<Head(ls)>>, err |-> "nil", rest |-> Tail(ls)]

\* the header Unmarshal works with on the stream ls, the lines it leaves to
\* the Decoder and the error of reading the header
streamHeader(hdr, ls) ==
    IF hdr # <<>> THEN [Header |-> hdr, err |-> "nil", rest |-> ls]
    ELSE [Header |-> [k \in 1..Len(streamRead(ls).rec) |-> NameOf[streamRead(ls).rec[k]]],
          err |-> streamRead(ls).err, rest |-> streamRead(ls).rest]

\* Unmarshal after the header: h is what streamHeader returned; NewDecoder
\* and UnmarshalNext on a new message, Decode() giving the next line or
\* (nil, nil) at the end of the stream
unmarshalStream(h) ==
    IF h.err # "nil"
    THEN /\ Header' = h.Header
         /\ result' = h.err
         /\ inputValue' = <<>> /\ target' = EmptyTarget
         /\ oneofOrder' = <<>> /\ recErr' = "none"
    ELSE /\ Header' = h.Header
         /\ inputValue' = streamRead(h.rest).rec
         /\ \E order \in Orders(OneofTypes) :
               unmarshalNextStore(order, unmarshalRecord(EmptyTarget, streamRead(h.rest).rec,
                                                         h.Header, AllowUnknownFields, order))

\* (*Unmarshaler).Unmarshal(r, pb) on the next stream
Unmarshal ==
    /\ uCalls < Len(uStreams)
    /\ uCalls' = uCalls + 1
    /\ unmarshalStream(streamHeader(Header, uStreams[uCalls + 1]))
    /\ UNCHANGED <<AllowUnknownFields, decodeErr, uStreams, uPreset>>
    /\ UNCHANGED <<splitVars, decVars, valVars, reqVars>>

NextUnm == Unmarshal

SplitInit == InitSplit /\ DecIdle /\ AsmIdle /\ ValIdle /\ ReqIdle /\ UnmIdle
SplitSpec == SplitInit /\ [][NextSplit]_vars

DecInit == NewDecoder /\ SplitIdle /\ AsmIdle /\ ValIdle /\ ReqIdle /\ UnmIdle
DecSpec == DecInit /\ [][NextDec]_vars

AsmInit == InitAsm /\ SplitIdle /\ DecIdle /\ ValIdle /\ ReqIdle /\ UnmIdle
AsmSpec == AsmInit /\ [][NextAsm]_vars

ValInit == InitVal /\ SplitIdle /\ DecIdle /\ AsmIdle /\ ReqIdle /\ UnmIdle
ValSpec == ValInit /\ [][NextVal]_vars

ReqInit == InitReq /\ SplitIdle /\ DecIdle /\ AsmIdle /\ ValIdle /\ UnmIdle
ReqSpec == ReqInit /\ [][NextReq]_vars

UnmInit == InitUnm /\ SplitIdle /\ DecIdle /\ ValIdle /\ ReqIdle
UnmSpec == UnmInit /\ [][NextUnm]_vars

(***************************************************************************)
(* Properties of the stream splitter                                       *)
(***************************************************************************)
HasSep(b) == findByte(b, SepByte) # -1
\* the bytes of b before / after the first separator
Before(b) == IF HasSep(b) THEN Take(b, findByte(b, SepByte)) ELSE b
After(b) == IF HasSep(b) THEN Drop(b, findByte(b, SepByte) + 1) ELSE <<>>

IsPrefix(s, t) == Len(s) <= Len(t) /\ Take(t, Len(s)) = s
IsSuffix(s, t) == Len(s) <= Len(t) /\ Drop(t, Len(t) - Len(s)) = s

\* C1: for every byte sequence b (a source that ends with io.EOF), once left
\* has returned end-of-stream it has delivered exactly the bytes before the
\* first separator; once right has returned end-of-stream too it has delivered
\* exactly the bytes after it; and when b holds no separator a Read of right
\* is released (it completes, with R empty) once left has returned
\* end-of-stream.
C1_SplitContract ==
    srcEnd = "EOF" =>
        /\ leof => lout = Before(input)
        /\ (leof /\ reof) => rout = After(input)
        /\ (leof /\ ~HasSep(input)) => wg = 0

\* C2: whenever the left reader has returned end-of-stream it has raised the
\* one-shot completion signal (the WaitGroup counter is zero), so a Read on
\* right is not blocked.
C2_EofImpliesSignal == leof => (done /\ wg = 0)

\* C3: for every len(p) and every amount of buffered data, left delivers only
\* bytes that precede the first separator, and until right starts reading
\* every byte after the first separator is still in the shared source.
C3_LeftStopsAtSeparator ==
    /\ IsPrefix(lout, Before(input))
    /\ ~rtouched => IsSuffix(After(input), buf \o src)

\* C4 (as stated): no Read of right returns before a Read of left has
\* returned end-of-stream.
C4_RightReturnsAfterLeftReturned == rreturned => leof

\* C4 (amended): no Read of right returns before left has raised the
\* completion signal in the Read call that reports end-of-stream; that call
\* has returned or stands at its return statement.
C4_RightReturnsAfterSignal ==
    rreturned => (done /\ wg = 0 /\ (leof \/ lpc = "ret"))

C4_Witness == rreturned /\ Len(rout) > 0 /\ leof /\ Len(lout) > 0

\* C5: right accesses the shared bufio.Reader only after left has performed
\* its last access to it: while right is at or past its br.Read, left is
\* done and is in none of the steps that call br.Peek, br.Read or br.ReadByte.
C5_ExclusiveSource ==
    (rpc = "read" \/ rtouched) => (done /\ lpc \in {"idle", "ret"})

C5_Witness == rtouched /\ rpc = "read" /\ Len(rout) > 0 /\ lpc = "idle" /\ lret.err = "EOF"

(***************************************************************************)
(* Properties of the lookahead record decoder                              *)
(***************************************************************************)
IsRec(x) == x \in Recs
\* the input holds only record lines and empty lines
Clean(ls) == \A k \in 1..Len(ls) : ls[k] \in Recs \cup {"blank"}
RecsOf(ls) == SelectSeq(ls, IsRec)

\* C6: for an input holding N records, More() is true exactly while fewer
\* than N Decode() calls have been made (so false at once when N = 0), the
\* Decode() calls made so far have returned the first records of the input
\* in input order, and none of them returned an error.
C6_MoreDecodeProtocol ==
    Clean(inLines) =>
        /\ moreRes # "none" => ((moreRes = "true") <=> (ndec < Len(RecsOf(inLines))))
        /\ decoded = Take(RecsOf(inLines), min(ndec, Len(RecsOf(inLines))))
        /\ nerr = 0
        /\ decRet.err \in {"none", "nil"}

C6_Witness ==
    /\ Clean(inLines) /\ Len(RecsOf(inLines)) = 2 /\ Len(inLines) = 3
    /\ ndec = 2 /\ decoded = RecsOf(inLines) /\ moreRes = "false"

\* C7: after the tokenizer has reported a genuine error for the prefetched
\* record, More() returns true as long as no Decode() has returned the error
\* and false afterwards.
C7_MoreUntilErrorReported ==
    (tokErr /\ moreRes # "none") => ((moreRes = "true") <=> (nerr = 0))

\* C8 (as stated): over any sequence of More() and Decode() calls at most one
\* Decode() returns a non-nil error.
C8_ErrorAtMostOnce == nerr <= 1

\* C8 (amended): over any sequence of More() and Decode() calls, at most one
\* of the Decode() calls made right after More() returned true returns a
\* non-nil error.
C8_ErrorAtMostOnceAfterMore == nerrAfterMore <= 1

C8_Witness == nerrAfterMore = 1 /\ nerr = 1 /\ ndec >= 3 /\ moreRes = "false"

\* C9: once the prefetched outcome is end-of-input or an error, no step reads
\* the upstream or changes the prefetched outcome, no Decode() returns a
\* record, and Decode() on an exhausted decoder returns (nil, nil).
C9_TerminalAbsorbing ==
    [][err # "nil" =>
        /\ lines' = lines /\ err' = err /\ v' = v
        /\ decoded' = decoded
        /\ ndec' # ndec => decRet'.v = "nil"
        /\ (ndec' # ndec /\ err = "EOF") => decRet' = [v |-> "nil", err |-> "nil"]]_vars

C9_Witness ==
    /\ err = "EOF" /\ ndec >= 3 /\ Len(decoded) = 1 /\ lines # <<>>
    /\ decRet = [v |-> "nil", err |-> "nil"]

(***************************************************************************)
(* Properties of the record assembler                                      *)
(***************************************************************************)
\* C10: for every header length and record length, including the empty
\* record of an exhausted decoder, UnmarshalNext returns a message or an
\* error and never panics.
C10_AssemblyNeverPanics == result # "panic"

(***************************************************************************)
(* Properties of the record assembler                                      *)
(***************************************************************************)
\* unmarshalRecord ran to its end or to an error of its own
AsmRan == result # "none" /\ decodeErr = "nil" /\ recErr # "panic"
\* the raw field map and the target after the loop over the struct fields
FieldsDone == fieldLoop(1, csvUnmarshal(Header, inputValue).csvFields, EmptyTarget)
\* the raw field map holds a cell for the field or alternative a
Present(a, m) == a.orig \in DOMAIN m \/ a.camel \in DOMAIN m
\* the positions of oneofOrder whose alternative has a cell in m
PresentAlts(m) == {k \in 1..Len(oneofOrder) : Present(oneofOrder[k], m)}

\* C11: when the record supplies cells for more than one alternative of the
\* oneof group, the alternative that is resolved first is the one left active
\* in the target, and the alternatives visited later are not looked up: their
\* cells are still in the raw field map when the oneof loop is over.
C11_FirstAlternativeWins ==
    (AsmRan /\ FieldsDone.err = "nil" /\ Cardinality(PresentAlts(FieldsDone.csvFields)) > 1) =>
        LET m == FieldsDone.csvFields
            first == CHOOSE k \in PresentAlts(m) : \A j \in PresentAlts(m) : k <= j
            o == oneofLoop(1, oneofOrder, m, FieldsDone.target)
        IN  /\ target.Union.alt = oneofOrder[first].name
            /\ \A k \in PresentAlts(m) \ {first} : Present(oneofOrder[k], o.csvFields)

\* the raw field map and the target after the loop over the oneof alternatives
OneofsDone ==
    IF DOMAIN FieldsDone.csvFields # {}
    THEN oneofLoop(1, oneofOrder, FieldsDone.csvFields, FieldsDone.target)
    ELSE FieldsDone
\* every spelling some field or oneof alternative accepts
AcceptedNames ==
    {Props[k].orig : k \in 1..Len(Props)} \cup {Props[k].camel : k \in 1..Len(Props)}
        \cup {a.orig : a \in OneofTypes} \cup {a.camel : a \in OneofTypes}
\* the columns of the header whose name some field accepts
KnownCols == {k \in 1..Len(Header) : Header[k] \in AcceptedNames}
RECURSIVE Keep(_, _, _)
\* the sequence s without the positions from k on that are not in cols
Keep(s, cols, k) ==
    IF k > Len(s) THEN <<>>
    ELSE (IF k \in cols \/ k > Len(Header) THEN <<s[k]>> ELSE <<>>) \o Keep(s, cols, k + 1)

\* C12: when every field and every oneof alternative has consumed and
\* decoded its cell and the header still holds a name that no field accepts,
\* unmarshalRecord fails with the unknown-field error if AllowUnknownFields is
\* false; if it is true it succeeds and leaves the target exactly as the same
\* record without the unknown columns leaves it.
C12_UnknownFieldPolicy ==
    (AsmRan /\ FieldsDone.err = "nil" /\ OneofsDone.err = "nil"
            /\ KnownCols # 1..Len(Header)) =>
        /\ ~AllowUnknownFields => (recErr = "UnknownFieldError" /\ result = "UnknownFieldError")
        /\ AllowUnknownFields =>
              /\ recErr = "nil"
              /\ target = unmarshalRecord(EmptyTarget, Keep(inputValue, KnownCols, 1),
                                          Keep(Header, KnownCols, 1), FALSE, oneofOrder).target
C12_Witness ==
    /\ AsmRan /\ AllowUnknownFields /\ KnownCols # 1..Len(Header)
    /\ result = "ok" /\ target # EmptyTarget

\* the raw field map csvUnmarshal builds from the header and the record
RawFieldMap == csvUnmarshal(Header, inputValue).csvFields
\* the cell the field p is to decode from the map m: the one under the camel
\* name when it is there, else the one under the original name
CellFor(p, m) == IF p.camel \in DOMAIN m THEN m[p.camel] ELSE m[p.orig]

\* C14: for a field with original name o and camel name c, consumeField on a
\* map holding both keys yields the value under c and removes both keys; on a
\* map holding exactly one of them it yields that value and removes that key;
\* on a map holding neither it reports absence and leaves the map unchanged.
\* No other entry of the map changes, and after assembly each field holds
\* the decoding of the value so chosen, or is untouched when it had none.
C14_ConsumeField ==
    AsmRan =>
        /\ \A p \in {Props[k] : k \in 1..Len(Props)} \cup OneofTypes :
              LET m == RawFieldMap
                  c == consumeField(m, p)
                  hasO == p.orig \in DOMAIN m
                  hasC == p.camel \in DOMAIN m
              IN  /\ (hasO /\ hasC) =>
                        (c.ok /\ c.raw = m[p.camel]
                              /\ DOMAIN c.csvFields = DOMAIN m \ {p.orig, p.camel})
                  /\ (hasO /\ ~hasC) =>
                        (c.ok /\ c.raw = m[p.orig] /\ DOMAIN c.csvFields = DOMAIN m \ {p.orig})
                  /\ (hasC /\ ~hasO) =>
                        (c.ok /\ c.raw = m[p.camel] /\ DOMAIN c.csvFields = DOMAIN m \ {p.camel})
                  /\ (~hasO /\ ~hasC) => (~c.ok /\ c.csvFields = m)
                  /\ \A nm \in DOMAIN c.csvFields : c.csvFields[nm] = m[nm]
        /\ FieldsDone.err = "nil" =>
              \A k \in 1..Len(Props) :
                 target[Props[k].name] =
                    IF Present(Props[k], RawFieldMap)
                    THEN unmarshalValue([type |-> Props[k].type, val |-> EmptyTarget[Props[k].name]],
                                        CellFor(Props[k], RawFieldMap), Props[k]).val
                    ELSE EmptyTarget[Props[k].name]
\* both spellings of o_int32 are in the header, only the cell under the camel
\* name is a number, and the record assembles
C14_Witness ==
    /\ AsmRan /\ recErr = "nil"
    /\ \E i, j \in 1..Len(Header) :
          /\ Header[i] = "o_int32" /\ Header[j] = "oInt32"
          /\ inputValue[i] # inputValue[j]
          /\ target.OInt32 = Text("int", inputValue[j])
          /\ ParseInt(inputValue[i], 32).err # "nil"

(***************************************************************************)
(* Properties of the required-field check                                  *)
(***************************************************************************)
\* the field the check looks at: the first field of the active wrapper for a
\* oneof (none when no alternative is active)
Unwrapped(pb) ==
    {IF f.oneof THEN f.alt[1] ELSE f :
        f \in {pb.fields[k] : k \in 1..Len(pb.fields)} \ {OneofField("Union", <<>>)}}
RECURSIVE RequiredAllSet(_)
\* no required field of pb, of its active oneof alternative, of an element of
\* a repeated field or of a value of a map field is unset
RequiredAllSet(pb) ==
    \A f \in Unwrapped(pb) :
        /\ ~(f.Required /\ f.IsNil)
        /\ \A k \in 1..Len(f.msgs) : RequiredAllSet(f.msgs[k])
RECURSIVE FirstNotSet(_)
\* the unset required field that comes first in declaration order, the
\* fields of the messages a field holds counting at the place of that field
FirstNotSet(pb) ==
    LET bad(k) == LET sf == pb.fields[k]
                      f == IF sf.oneof /\ sf.alt # <<>> THEN sf.alt[1] ELSE sf
                  IN  \/ f.Required /\ f.IsNil
                      \/ \E j \in 1..Len(f.msgs) : ~RequiredAllSet(f.msgs[j])
        i == CHOOSE k \in 1..Len(pb.fields) : bad(k) /\ \A j \in 1..(k-1) : ~bad(j)
        g == IF pb.fields[i].oneof THEN pb.fields[i].alt[1] ELSE pb.fields[i]
        m == CHOOSE k \in 1..Len(g.msgs) :
                 ~RequiredAllSet(g.msgs[k]) /\ \A j \in 1..(k-1) : RequiredAllSet(g.msgs[j])
    IN  IF g.Required /\ g.IsNil THEN g.name ELSE FirstNotSet(g.msgs[m])

\* C13: checkRequiredFields, the last step of UnmarshalNext on an assembled
\* message, returns the required-field error exactly when some required field
\* of the message, of its active oneof alternative, of an element of a
\* repeated field or of a value of a map field is unset, and the error names
\* the first of them in declaration order; a message in which every such
\* field is set passes.
C13_RequiredFields ==
    pbErr.err # "none" =>
        /\ RequiredAllSet(pbMsg) <=> pbErr = NoError
        /\ ~RequiredAllSet(pbMsg) =>
              (pbErr.err = "RequiredFieldMissingError" /\ pbErr.name = FirstNotSet(pbMsg))
\* the required field x of a map value is unset and so is the later field
\* byts: the error names x
C13_Witness ==
    /\ pbErr = NotSet("X")
    /\ ~pbMsg.fields[1].IsNil /\ pbMsg.fields[2].IsNil
    /\ Len(pbMsg.fields[3].msgs) > 0
    /\ pbMsg.fields[6].IsNil

(***************************************************************************)
(* Properties of the value decoder                                         *)
(***************************************************************************)
\* unmarshalValue has returned for the cell vText of the field of type vType
ValRan == vOut.err # "none"

\* C15: for a field of the dynamic type Value the cell null decodes to the
\* explicit null variant: the field is set and holds NullValue, it is neither
\* left unset nor decoded as the string "null".
C15_NullValueVariant ==
    (ValRan /\ vType = "*Value" /\ vText = null) =>
        (vOut.err = "nil" /\ vOut.val.k = "NullValue")

\* C16: for every pointer field of a type other than Value (the wrappers,
\* Duration, Timestamp, ListValue, Struct, the optional scalars of proto2)
\* the cell null leaves the field unset and unmarshalValue returns no error.
C16_NullLeavesUnset ==
    (ValRan /\ vType \in PtrTypes \ {"*Value"} /\ vText = <<"n", "u", "l", "l">>) =>
        (vOut.err = "nil" /\ vOut.val = Unset)
\* the cell null was decoded into a Duration field, which is still nil
C16_Witness ==
    /\ ValRan /\ vType = "*Duration" /\ vText = <<"n", "u", "l", "l">>
    /\ vOut = [val |-> Unset, err |-> "nil"]

\* the repeated fields that are no bytes field
RepeatedScalarTypes == {t \in SliceTypes : Kind(Elem[t]) \in ScalarTypes}

\* C17: for a repeated scalar field that is no bytes field the empty cell is
\* legal: unmarshalValue returns no error and the field holds zero elements.
C17_EmptyRepeatedCell ==
    (ValRan /\ vType \in RepeatedScalarTypes /\ vText = <<>>) =>
        /\ vOut.err = "nil"
        /\ vOut.val \in {Unset, Val("list", <<>>, 0, 0, <<>>)}

\* what the rule of the Value case makes of the text s: the kind of the
\* variant, with the precedence null, number (text with a "."), bool (text
\* that is none of 1, t, T, 0, f, F), number, string
Classified(s) ==
    IF s = <<>> THEN "NullValue"
    ELSE IF Contains(s, ".") /\ ParseFloat(s, 0).err = "nil" THEN "NumberValue"
    ELSE IF s \notin {<<"1">>, <<"t">>, <<"T">>, <<"0">>, <<"f">>, <<"F">>}
            /\ ParseBool(s).err = "nil" THEN "BoolValue"
    ELSE IF ParseFloat(s, 0).err = "nil" THEN "NumberValue"
    ELSE "StringValue"

OrdinalClaimed(s) ==
    IF s \in DOMAIN Widget_Color_value THEN [err |-> "nil", v |-> Widget_Color_value[s]]
    ELSE IF ParseUint(s, 32).err = "nil" THEN [err |-> "nil", v |-> ParseUint(s, 32).v]
    ELSE [err |-> "EnumError", v |-> <<>>]
\* the same with the limit of the int32 the ordinal is stored in: a number
\* above 2147483647 is a range error
OrdinalInt32(s) ==
    IF OrdinalClaimed(s).err = "nil" /\ ~DecLeq(OrdinalClaimed(s).v, ParseInt(<<"2", "1", "4", "7", "4", "8", "3", "6", "4", "7">>, 32).v)
    THEN [err |-> "RangeError", v |-> <<>>]
    ELSE OrdinalClaimed(s)
\* the enum field, scalar or repeated, holds what the rule R gives for the
\* trimmed text of the cell, or of each element of the cell in order; the
\* first element that fails gives the error of the field
EnumCellFollows(R(_)) ==
    LET rec == csvReaderRead(vText).rec
        ord(k) == R(TrimSpace(rec[k]))
        bad == {k \in 1..Len(rec) : ord(k).err # "nil"}
    IN  /\ vType = "int32" =>
            /\ vOut.err = R(TrimSpace(vText)).err
            /\ vOut.err = "nil" => vOut.val = Text("int", R(TrimSpace(vText)).v)
        /\ (vType = "[]int32" /\ csvReaderRead(vText).err = "nil") =>
            IF bad = {}
            THEN vOut = Ok(Val("list", <<>>, 0, 0, [k \in 1..Len(rec) |-> Text("int", ord(k).v)]))
            ELSE \E k \in bad : (\A j \in bad : k <= j) /\ vOut.err = ord(k).err
\* unmarshalValue has returned for a cell of a field of the enum Widget_Color
EnumRan == ValRan /\ vEnum = "Widget_Color" /\ vType \in {"int32", "[]int32"}

\* C19 as stated: the trimmed text of an enum field (or of each element of a
\* repeated enum cell) decodes to the ordinal of the enum name it matches;
\* otherwise it must parse as an unsigned integer, which becomes the value of
\* the field even when no name has that ordinal; any other text fails with an
\* enum error.
C19_EnumNameOrOrdinal == EnumRan => EnumCellFollows(OrdinalClaimed)

\* C19 amended: as above, but the unsigned 32 bit number becomes the value
\* only up to 2147483647; from 2147483648 to 4294967295 it passes the enum
\* test and fails in the int32 conversion with a range error, not an enum
\* error.
C19_EnumNameOrInt32Ordinal == EnumRan => EnumCellFollows(OrdinalInt32)
\* the ordinal 2147483648 of an enum field was refused as out of range
C19_Witness ==
    /\ EnumRan /\ vType = "int32"
    /\ vText = <<"2", "1", "4", "7", "4", "8", "3", "6", "4", "8">>
    /\ vOut.err = "RangeError"

\* s is a signed decimal number followed by the one letter s: an optional
\* sign, digits with at most one "." among them, and the suffix
SecondsText(s) ==
    LET signed == Len(s) > 0 /\ s[1] \in {"+", "-"}
        body == IF signed THEN Tail(s) ELSE s
        num == SubSeq(body, 1, Len(body) - 1)
    IN  /\ Len(body) >= 2 /\ body[Len(body)] = "s"
        /\ \A k \in 1..Len(num) : num[k] \in Digit \cup {"."}
        /\ \E k \in 1..Len(num) : num[k] \in Digit
        /\ Cardinality({k \in 1..Len(num) : num[k] = "."}) <= 1

\* C20: a cell of a Duration field is accepted only when it is a signed
\* decimal number of seconds followed by the suffix s; every other text (1m,
\* 2h, 5ms, 1h30m, the bare number 4) fails with a format error.
C20_DurationSecondsOnly ==
    (ValRan /\ vType = "*Duration" /\ vText # null) =>
        /\ vOut.err = "nil" => SecondsText(vText)
        /\ ~SecondsText(vText) => vOut.err = "FormatError"

\* the numeric target types and the conversion of strconv each of them uses
NumericTypes == {"int32", "int64", "uint32", "uint64", "float32", "float64"}
ParsedAs(t, s) ==
    IF t = "int32" THEN ParseInt(s, 32)
    ELSE IF t = "int64" THEN ParseInt(s, 64)
    ELSE IF t = "uint32" THEN ParseUint(s, 32)
    ELSE IF t = "uint64" THEN ParseUint(s, 64)
    ELSE IF t = "float32" THEN ParseFloat(s, 32)
    ELSE ParseFloat(s, 64)
\* the text s wrapped in one pair of double quotes
Quoted(s) == <<Quote>> \o s \o <<Quote>>

\* C21: for every numeric target type and every text that parses in range
\* for that type, decoding the text and decoding the text wrapped in exactly
\* one pair of double quotes give the same value, without error.
C21_QuotedNumberSameValue ==
    (ValRan /\ vEnum = "" /\ vType \in NumericTypes /\ ParsedAs(vType, vText).err = "nil") =>
        /\ vOut.err = "nil"
        /\ unmarshalValue([type |-> vType, val |-> Zero], Quoted(vText), [Enum |-> ""]) = vOut
\* the cell 1000 of an int32 field was decoded to 1000, as the cell "1000" is
C21_Witness ==
    /\ ValRan /\ vEnum = "" /\ vType = "int32" /\ vText = <<"1", "0", "0", "0">>
    /\ vOut = Ok(Text("int", <<"1", "0", "0", "0">>))
    /\ unmarshalValue([type |-> "int32", val |-> Zero], Quoted(vText), [Enum |-> ""]) = vOut

(***************************************************************************)
(* Further properties of the lookahead record decoder                      *)
(***************************************************************************)
\* C22: a genuine error of the read behind a prefetch is never turned into
\* the normal end of the input, also when no byte was there to peek: as long
\* as no Decode() has returned it, the prefetched outcome is that error (so
\* the next Decode() returns it and not (nil, nil)) and More() is true.
C22_ReadErrorNotEndOfInput ==
    (tokErr /\ nerr = 0) =>
        /\ err \notin {"nil", "EOF"}
        /\ moreRes # "none" => moreRes = "true"

(***************************************************************************)
(* Properties of Unmarshal on successive streams                           *)
(***************************************************************************)
\* C23: every call of Unmarshal parses the first line of its own stream as
\* the header: when no Header was set by the caller, the second call on the
\* same Unmarshaler takes its field names from the first line of the second
\* stream and its record from the second line of that stream.
C23_HeaderPerStream ==
    (uCalls = 2 /\ ~uPreset /\ Len(uStreams[2]) >= 2) =>
        /\ Header = <<NameOf[uStreams[2][1]]>>
        /\ inputValue = <<uStreams[2][2]>>

(***************************************************************************)
(* Further properties of the value decoder                                 *)
(***************************************************************************)
\* the text begins with a double quote and is not wrapped in a pair of them
HalfQuoted(s) == HasPrefix(s, <<Quote>>) /\ (Len(s) < 2 \/ s[Len(s)] # Quote)

\* C24: for a bool or numeric target a cell that begins with a double quote
\* but does not end with the matching one (the cell that is one double quote,
\* "12x, "truex) is malformed: unmarshalValue returns an error; it neither
\* panics nor succeeds by dropping the last character.
C24_HalfQuotedIsError ==
    (ValRan /\ vEnum = "" /\ vType \in NumericTypes \cup {"bool"} /\ HalfQuoted(vText)) =>
        vOut.err \notin {"nil", "panic"}

(***************************************************************************)
(* More() as a query                                                       *)
(***************************************************************************)
\* C25: More() performs no upstream read and changes no state of the
\* decoder: a step that is no Decode() leaves the upstream, the prefetched
\* outcome and reportedError as they are, and a More() that follows another
\* More() returns the same value.  What the next Decode() does depends on
\* that state only, so its outcome is unchanged.
C25_MoreIsPure ==
    [][ndec' = ndec =>
          /\ <<lines, v, err, reportedError, tokErr>>' = <<lines, v, err, reportedError, tokErr>>
          /\ <<decRet, decoded, nerr>>' = <<decRet, decoded, nerr>>
          /\ moreRes # "none" => moreRes' = moreRes]_vars
\* More() has returned true for a prefetched error that no Decode() has
\* returned yet
C25_Witness ==
    /\ moreRes = "true" /\ err \notin {"nil", "EOF"} /\ ~reportedError
    /\ ndec >= 1 /\ nerr = 0

(***************************************************************************)
(* Order of the errors of one record                                       *)
(***************************************************************************)
\* what unmarshalValue makes of the cell the record holds for the field or
\* alternative p
DecodedCell(p) ==
    unmarshalValue([type |-> p.type, val |-> Unset], CellFor(p, RawFieldMap), p)
\* the ordinary fields, by position, and the alternatives whose cell is in
\* the record and does not decode
FailingFields ==
    {k \in 1..Len(Props) : Present(Props[k], RawFieldMap) /\ DecodedCell(Props[k]).err # "nil"}
FailingAlts ==
    {a \in OneofTypes : Present(a, RawFieldMap) /\ DecodedCell(a).err # "nil"}
\* the header holds a name no field accepts
UnknownLeft == KnownCols # 1..Len(Header)

\* C26: assembly of one record aborts at the first ordinary field, in
\* declaration order, whose cell does not decode, and writes no ordinary
\* field declared after it; an error of Decode() comes before every error of
\* a cell, an error of a cell before the unknown-field error, and the
\* unknown-field error before the required-field error.  (A record shorter
\* than the header never reaches the cells, see C10.)
C26_ErrorPrecedence ==
    result # "none" =>
        /\ decodeErr # "nil" => (result = decodeErr /\ target = EmptyTarget)
        /\ (decodeErr = "nil" /\ Len(inputValue) >= Len(Header)) =>
              /\ FailingFields # {} =>
                    \E i \in FailingFields :
                        /\ \A j \in FailingFields : i <= j
                        /\ result = DecodedCell(Props[i]).err
                        /\ \A j \in (i+1)..Len(Props) : target[Props[j].name] = Unset
              /\ (FailingFields = {} /\ FailingAlts # {}) =>
                    result \in {DecodedCell(a).err : a \in FailingAlts}
              /\ (FailingFields = {} /\ FailingAlts = {} /\ UnknownLeft /\ ~AllowUnknownFields) =>
                    result = "UnknownFieldError"
              /\ result = "RequiredFieldMissingError" =>
                    /\ FailingFields = {} /\ FailingAlts = {}
                    /\ AllowUnknownFields \/ ~UnknownLeft
\* the cell of o_int32 is no number and the record holds a cell for str, the
\* field declared after it: the error is that of the number and Str is unset
C26_Witness ==
    /\ result = "FormatError" /\ recErr = "FormatError"
    /\ Header = <<"str", "o_int32">> /\ inputValue = <<<<"1">>, <<"x">>>>
    /\ target.Str = Unset

\* C27: assembly is deterministic: the same header and record give the same
\* target and the same outcome whatever the order in which the table of the
\* oneof alternatives is visited, also when the record holds cells for two
\* alternatives of the group.
C27_AssemblyDeterministic ==
    AsmRan =>
        \A order \in Orders(OneofTypes) :
            unmarshalRecord(EmptyTarget, inputValue, Header, AllowUnknownFields, order)
                = [target |-> target, err |-> recErr]

(***************************************************************************)
(* The completion signal of the splitter                                   *)
(***************************************************************************)
\* C28: over any sequence of Read calls on left, with buffers of any length,
\* the completion signal is raised at most once (the counter of the
\* WaitGroup goes from 1 to 0 and never further); once r.done is set a Read
\* on left returns (0, io.EOF) and left calls nothing of the shared
\* bufio.Reader; a Read with a buffer of length zero before that returns
\* (0, nil) and changes nothing.
C28_SignalAtMostOnce ==
    [][/\ wg' \in {0, 1} /\ wg' <= wg
       /\ (done /\ lpc = "idle") =>
             /\ done' /\ lpc' = "idle" /\ lout' = lout
             /\ lret' # lret => lret' = [n |-> 0, err |-> "EOF"]
             /\ rpc # "read" => <<src, buf>>' = <<src, buf>>
       /\ (~done /\ lpc = "idle" /\ lpc' = "idle" /\ lret' # lret) =>
             /\ lret' = [n |-> 0, err |-> "nil"]
             /\ <<src, buf, done, wg, lout, leof>>' = <<src, buf, done, wg, lout, leof>>]_vars
\* left has given out bytes, raised the signal and returned (0, io.EOF), and
\* bytes behind the separator are still in the source
C28_Witness ==
    /\ done /\ wg = 0 /\ lpc = "idle" /\ lret = [n |-> 0, err |-> "EOF"]
    /\ Len(lout) > 0 /\ Len(buf) + Len(src) > 0 /\ ~rtouched

(***************************************************************************)
(* The two fields of a Duration                                            *)
(***************************************************************************)
\* C29: for every Duration cell that is accepted, with the total value T
\* that time.ParseDuration gives, the stored fields satisfy
\* seconds * 10^9 + nanos = T and |nanos| < 10^9, and seconds and nanos
\* never have opposite signs (-1.5s gives seconds = -1 and a negative half
\* second of nanos).  SecondInNanos is the 10^9 of the model.
C29_DurationFields ==
    (ValRan /\ vType = "*Duration" /\ vOut.err = "nil" /\ vOut.val # Unset) =>
        /\ vOut.val.k = "Duration"
        /\ vOut.val.n * SecondInNanos + vOut.val.m = ParseDuration(vText).d
        /\ vOut.val.m < SecondInNanos /\ 0 - vOut.val.m < SecondInNanos
        /\ ~(vOut.val.n > 0 /\ vOut.val.m < 0)
        /\ ~(vOut.val.n < 0 /\ vOut.val.m > 0)
\* the cell -1.5s was decoded: one second and half a second, both negative
C29_Witness ==
    /\ ValRan /\ vType = "*Duration" /\ vText = <<"-", "1", ".", "5", "s">>
    /\ vOut = Ok(Val("Duration", <<>>, 0 - 1, 0 - (SecondInNanos \div 2), <<>>))

====
